---- MODULE Spec2Model ----
(***************************************************************************)
(* TrendingHub ingestion pipeline: scheduler (per-source cycles with       *)
(* panic recovery), processor (dedupe + description truncation), store     *)
(* (per-channel shards, FirstOrCreate + Updates upsert, Redis read-through *)
(* cache) and the A-share fetch gate.                                      *)
(*                                                                         *)
(* Text is a sequence of units: "a" an ASCII letter, "sp" a white-space    *)
(* character, "zh" a three-byte CJK character, "bad" one byte that is not  *)
(* valid UTF-8, "fffd" U+FFFD and "ell" the ellipsis U+2026.               *)
(* An instant is a number of minutes since a Monday 00:00 UTC.            *)
(***************************************************************************)
EXTENDS Integers, Sequences, FiniteSets, TLC

VARIABLES
    shards,     \* table name -> set of News rows (PostgreSQL news_<channel>)
    now,        \* wall clock, an instant
    lastRaw,    \* the batch Fetch returned to the last sequential cycle
    lastOut,    \* what Process made of lastRaw
    lastErr,    \* what SaveBatch returned to the last sequential cycle
    gateT,      \* the time.Time handed to isAshareMarketOpen
    gateOpen,   \* what isAshareMarketOpen returned for gateT
    boot,       \* what NewStore did and returned
    cache,      \* Redis: a set of entries [key, val, exp]
    query,      \* the arguments the read API is called with
    lastOp,     \* the last store operation and what it returned
    commits,    \* history: the shard states committed so far, each with its instant
    tasks,      \* <<job, origin>> -> the runFetcher call of that job: where it is
    alive,      \* the process has not been ended by a panic
    round,      \* RunOnce: calls made, a call is in progress, its WaitGroup counter
    fires,      \* the number of times cron has fired a job
    faulty,     \* the job whose Fetch panics on every call, if any
    cfg,        \* config.Load: the Basic Auth user and password
    request,    \* the HTTP request the router is handling
    response,   \* the status it was answered with and whether its handler ran
    fetcher,    \* the AShareIndexFetcher: whether HasTodayData is injected
    fetched     \* what the last call of AShareIndexFetcher.Fetch did and returned

storeVars == <<shards, now>>
procVars == <<lastRaw, lastOut, lastErr>>
gateVars == <<gateT, gateOpen>>
readVars == <<boot, cache, query, lastOp, commits>>
schedVars == <<tasks, alive, round, fires, faulty>>
httpVars == <<cfg, request, response>>
fetchVars == <<fetcher, fetched>>
vars == <<shards, now, lastRaw, lastOut, lastErr, gateT, gateOpen, boot, cache, query, lastOp, commits,
          tasks, alive, round, fires, faulty, cfg, request, response, fetcher, fetched>>

None == "none"

\* no read has been made yet
NoOp == [op |-> None, hit |-> FALSE, cacheFault |-> None, dbFail |-> {}, list |-> <<>>,
         err |-> FALSE]

(***************************************************************************)
(* Text                                                                    *)
(***************************************************************************)
Rep(u, n) == [i \in 1..n |-> u]

RECURSIVE TrimLeft(_)
TrimLeft(s) == IF s # <<>> /\ Head(s) = "sp" THEN TrimLeft(Tail(s)) ELSE s

RECURSIVE TrimRight(_)
TrimRight(s) ==
    IF s # <<>> /\ s[Len(s)] = "sp" THEN TrimRight(SubSeq(s, 1, Len(s) - 1)) ELSE s

TrimSpace(s) == TrimRight(TrimLeft(s))

\* []rune(s): every invalid byte decodes to U+FFFD
ToRunes(s) == [i \in 1..Len(s) |-> IF s[i] = "bad" THEN "fffd" ELSE s[i]]

\* strings.ToValidUTF8(s, U+FFFD): each run of invalid bytes becomes one U+FFFD
\* (the first byte of a run becomes U+FFFD, the rest of the run is dropped)
RunHead(p) == p[1] # "bad" \/ ~ p[2]

toValidUTF8(s) ==
    LET marked == [i \in 1..Len(s) |-> <<s[i], i > 1 /\ s[i - 1] = "bad">>]
        kept == SelectSeq(marked, RunHead)
    IN  [i \in 1..Len(kept) |-> IF kept[i][1] = "bad" THEN "fffd" ELSE kept[i][1]]

truncateRunesNoEllipsis(s, limit) ==
    IF limit <= 0 THEN <<>>
    ELSE LET t == TrimSpace(s)
             rs == ToRunes(t)
         IN  IF t = <<>> THEN <<>>
             ELSE IF Len(rs) <= limit THEN t
             ELSE SubSeq(rs, 1, limit)

\* processor.truncateRunes
truncateRunes(s, limit) ==
    IF limit <= 0 THEN <<>>
    ELSE LET t == TrimSpace(s)
             rs == ToRunes(t)
         IN  IF t = <<>> THEN <<>>
             ELSE IF Len(rs) <= limit THEN t
             ELSE SubSeq(rs, 1, limit) \o <<"ell">>

\* storage.truncateRunesDB
truncateRunesDB(s, limit) ==
    IF limit <= 0 THEN <<>>
    ELSE LET t == TrimSpace(s)
             rs == ToRunes(t)
         IN  IF t = <<>> THEN <<>>
             ELSE IF Len(rs) <= limit THEN t
             ELSE SubSeq(rs, 1, limit)

ProcDescLimit == 600
DbDescLimit == 600

(***************************************************************************)
(* Time                                                                    *)
(***************************************************************************)
MinutesPerDay == 24 * 60
MinutesPerWeek == 7 * MinutesPerDay
\* time.FixedZone("CST", 8*60*60), in minutes
East8Offset == 8 * 60

\* t.In(locEast8).Format("2006-01-02"): the UTC+8 calendar day, as a day number
East8Date(t) == (t + East8Offset) \div MinutesPerDay

\* A time.Time is an instant (utc) shown in a zone (off, minutes east of UTC).
TimeIn(t, off) == [utc |-> t.utc, off |-> off]
WallClock(t) == t.utc + t.off
\* time.Weekday: Sunday = 0 ... Saturday = 6 (minute 0 is a Monday)
Weekday(t) == ((WallClock(t) \div MinutesPerDay) + 1) % 7
Hour(t) == (WallClock(t) % MinutesPerDay) \div 60
Minute(t) == WallClock(t) % 60
Saturday == 6
Sunday == 0

isAshareMarketOpenLocalZone(t) ==
    LET bt == t
        min == Hour(bt) * 60 + Minute(bt)
    IN  IF Weekday(bt) = Saturday \/ Weekday(bt) = Sunday THEN FALSE
        ELSE IF min >= 9 * 60 + 30 /\ min <= 11 * 60 + 30 THEN TRUE
        ELSE IF min >= 13 * 60 /\ min <= 15 * 60 THEN TRUE
        ELSE FALSE

\* collector.isAshareMarketOpen
isAshareMarketOpen(t) ==
    LET bt == TimeIn(t, East8Offset)
        min == Hour(bt) * 60 + Minute(bt)
    IN  IF Weekday(bt) = Saturday \/ Weekday(bt) = Sunday THEN FALSE
        ELSE IF min >= 9 * 60 + 30 /\ min <= 11 * 60 + 30 THEN TRUE
        ELSE IF min >= 13 * 60 /\ min <= 15 * 60 THEN TRUE
        ELSE FALSE

\* collector.isAshareTradingWeekday
isAshareTradingWeekday(t) ==
    LET bt == TimeIn(t, East8Offset)
    IN  ~ (Weekday(bt) \in {Saturday, Sunday})

(***************************************************************************)
(* Processor                                                               *)
(***************************************************************************)
\* processor.hashURL: hex SHA-1 of the link, modelled as an injective tag
hashURL(url) == <<"sha1", url>>

ProcessOneIdFromScore(it) ==
    LET desc == truncateRunes(TrimSpace(it.Description), ProcDescLimit)
    IN  [ID |-> hashURL(<<"url", it.HotScore>>),
         Title |-> TrimSpace(it.Title),
         URL |-> it.URL,
         Source |-> it.Source,
         Description |-> IF desc = <<>>
                         THEN truncateRunes(TrimSpace(it.Title), ProcDescLimit)
                         ELSE desc,
         PublishedAt |-> it.PublishedAt,
         HotScore |-> it.HotScore,
         RawData |-> it.RawData]

ProcessOne(it) ==
    LET desc == truncateRunes(TrimSpace(it.Description), ProcDescLimit)
    IN  [ID |-> hashURL(it.URL),
         Title |-> TrimSpace(it.Title),
         URL |-> it.URL,
         Source |-> it.Source,
         Description |-> IF desc = <<>>
                         THEN truncateRunes(TrimSpace(it.Title), ProcDescLimit)
                         ELSE desc,
         PublishedAt |-> it.PublishedAt,
         HotScore |-> it.HotScore,
         RawData |-> it.RawData]

RECURSIVE ProcessFrom(_, _)
ProcessFrom(items, seen) ==
    IF items = <<>> THEN <<>>
    ELSE LET it == Head(items)
             id == hashURL(it.URL)
         IN  IF id \in seen THEN ProcessFrom(Tail(items), seen)
             ELSE <<ProcessOne(it)>> \o ProcessFrom(Tail(items), seen \cup {id})

RECURSIVE ProcessKeepLast(_)
ProcessKeepLast(items) ==
    IF items = <<>> THEN <<>>
    ELSE LET it == Head(items)
         IN  IF \E j \in 2..Len(items) : items[j].URL = it.URL
             THEN ProcessKeepLast(Tail(items))
             ELSE <<ProcessOne(it)>> \o ProcessKeepLast(Tail(items))

\* SimpleProcessor.Process
Process(items) == ProcessFrom(items, {})

(***************************************************************************)
(* Store: shards and the upsert                                            *)
(***************************************************************************)
allowedSources == {"github", "baidu", "gold", "ashare", "x", "hackernews"}

sourceToTable ==
    [src \in allowedSources |->
        CASE src = "github" -> "news_github"
          [] src = "baidu" -> "news_baidu"
          [] src = "gold" -> "news_gold"
          [] src = "ashare" -> "news_ashare"
          [] src = "x" -> "news_x"
          [] src = "hackernews" -> "news_hackernews"]

Tables == {sourceToTable[src] : src \in allowedSources}

\* storage.newsTable: "" for a source that has no table
newsTable(source) ==
    IF source \in DOMAIN sourceToTable THEN sourceToTable[source] ELSE ""

EmptyShards == [tbl \in Tables |-> {}]

NewsOfDateInUTC(it) ==
    [ID |-> it.ID,
     Title |-> toValidUTF8(it.Title),
     URL |-> it.URL,
     Source |-> it.Source,
     Description |-> truncateRunesDB(toValidUTF8(it.Description), DbDescLimit),
     PublishedAt |-> it.PublishedAt,
     PublishedDate |-> it.PublishedAt \div MinutesPerDay,
     HotScore |-> it.HotScore,
     ExtraData |-> it.RawData]

\* the struct n that SaveBatch builds for one item
NewsOf(it) ==
    [ID |-> it.ID,
     Title |-> toValidUTF8(it.Title),
     URL |-> it.URL,
     Source |-> it.Source,
     Description |-> truncateRunesDB(toValidUTF8(it.Description), DbDescLimit),
     PublishedAt |-> it.PublishedAt,
     PublishedDate |-> East8Date(it.PublishedAt),
     HotScore |-> it.HotScore,
     ExtraData |-> it.RawData]

\* SELECT * FROM tbl WHERE url = ? ORDER BY id LIMIT 1 (the lookup of FirstOrCreate)
DbFirstByURL(sh, tbl, url) == {r \in sh[tbl] : r.URL = url}

\* INSERT INTO tbl: refused by the primary key (id) and by the unique index on url
DbInsertAllowed(sh, tbl, n) == \A r \in sh[tbl] : r.ID # n.ID /\ r.URL # n.URL

DbInsert(sh, tbl, n, t) ==
    [sh EXCEPT ![tbl] = @ \cup {[ID |-> n.ID, Title |-> n.Title, URL |-> n.URL,
                                 Source |-> n.Source, Description |-> n.Description,
                                 PublishedAt |-> n.PublishedAt,
                                 PublishedDate |-> n.PublishedDate,
                                 HotScore |-> n.HotScore, ExtraData |-> n.ExtraData,
                                 CreatedAt |-> t, UpdatedAt |-> t]}]

DbUpdatesReplaceRow(sh, tbl, id, n, t) ==
    [sh EXCEPT ![tbl] =
        {r \in @ : r.ID # id} \cup
        {[ID |-> n.ID, Title |-> n.Title, URL |-> n.URL, Source |-> n.Source,
          Description |-> n.Description, PublishedAt |-> n.PublishedAt,
          PublishedDate |-> n.PublishedDate, HotScore |-> n.HotScore,
          ExtraData |-> n.ExtraData, CreatedAt |-> t, UpdatedAt |-> t]}]

\* UPDATE tbl SET title, description, hot_score, published_at, published_date,
\* extra_data, updated_at WHERE id = ?
DbUpdates(sh, tbl, id, n, t) ==
    [sh EXCEPT ![tbl] =
        {IF r.ID = id
         THEN [r EXCEPT !.Title = n.Title, !.Description = n.Description,
                        !.HotScore = n.HotScore, !.PublishedAt = n.PublishedAt,
                        !.PublishedDate = n.PublishedDate,
                        !.ExtraData = n.ExtraData, !.UpdatedAt = t]
         ELSE r : r \in @}]

NoFault == [at |-> 0, op |-> None]

SaveOneUnknownChannelFails(sh, it, t, failOp) ==
    LET tbl == newsTable(it.Source)
        n == NewsOf(it)
        found == DbFirstByURL(sh, tbl, it.URL)
    IN  IF tbl = "" THEN [sh |-> sh, err |-> TRUE]
        ELSE IF failOp = "first" THEN [sh |-> sh, err |-> TRUE]
        ELSE IF found = {} /\ ~ DbInsertAllowed(sh, tbl, n) THEN [sh |-> sh, err |-> TRUE]
        ELSE LET created == IF found = {} THEN DbInsert(sh, tbl, n, t) ELSE sh
                 id == IF found = {} THEN n.ID ELSE (CHOOSE r \in found : TRUE).ID
             IN  IF failOp = "update" THEN [sh |-> created, err |-> TRUE]
                 ELSE [sh |-> DbUpdates(created, tbl, id, n, t), err |-> FALSE]

SaveOneNoUpdate(sh, it, t, failOp) ==
    LET tbl == newsTable(it.Source)
        n == NewsOf(it)
        found == DbFirstByURL(sh, tbl, it.URL)
    IN  IF tbl = "" THEN [sh |-> sh, err |-> FALSE]
        ELSE IF failOp = "first" THEN [sh |-> sh, err |-> TRUE]
        ELSE IF found = {} /\ ~ DbInsertAllowed(sh, tbl, n) THEN [sh |-> sh, err |-> TRUE]
        ELSE [sh |-> IF found = {} THEN DbInsert(sh, tbl, n, t) ELSE sh,
              err |-> failOp = "update"]

\* One iteration of the loop of SaveBatch, run without interruption: the new
\* shards and whether the iteration returned an error.
SaveOne(sh, it, t, failOp) ==
    LET tbl == newsTable(it.Source)
        n == NewsOf(it)
        found == DbFirstByURL(sh, tbl, it.URL)
    IN  IF tbl = "" THEN [sh |-> sh, err |-> FALSE]
        ELSE IF failOp = "first" THEN [sh |-> sh, err |-> TRUE]
        ELSE IF found = {} /\ ~ DbInsertAllowed(sh, tbl, n) THEN [sh |-> sh, err |-> TRUE]
        ELSE LET created == IF found = {} THEN DbInsert(sh, tbl, n, t) ELSE sh
                 id == IF found = {} THEN n.ID ELSE (CHOOSE r \in found : TRUE).ID
             IN  IF failOp = "update" THEN [sh |-> created, err |-> TRUE]
                 ELSE [sh |-> DbUpdates(created, tbl, id, n, t), err |-> FALSE]

RECURSIVE SaveFrom(_, _, _, _, _)
SaveFrom(sh, items, k, t, fault) ==
    IF k > Len(items) THEN [sh |-> sh, err |-> FALSE]
    ELSE LET one == SaveOne(sh, items[k], t, IF fault.at = k THEN fault.op ELSE None)
         IN  IF one.err THEN one ELSE SaveFrom(one.sh, items, k + 1, t, fault)

SaveBatchInTransaction(sh, items, t, fault) ==
    LET res == SaveFrom(sh, items, 1, t, fault)
    IN  IF res.err THEN [sh |-> sh, err |-> TRUE] ELSE res

\* Store.SaveBatch, run without interruption at time t; fault names the record
\* and the statement at which the database refuses a write (NoFault: none)
SaveBatch(sh, items, t, fault) == SaveFrom(sh, items, 1, t, fault)

(***************************************************************************)
(* Inputs                                                                  *)
(***************************************************************************)
NumLinks == 2
MaxBatch == 2
MaxOver == 2

Links == {<<"url", i>> : i \in 1..NumLinks}

\* sequences over S of length at most n
SeqUpTo(S, n) == UNION {[1..k -> S] : k \in 0..n}

\* an instant of a Wednesday, 12:00 UTC+8
StartInstant == 2 * MinutesPerDay + 4 * 60

\* descriptions around the 600-character limit, in each kind of character
LongTexts ==
    {Rep("zh", ProcDescLimit), Rep("zh", ProcDescLimit + 1),
     <<"sp">> \o Rep("bad", ProcDescLimit + MaxOver) \o <<"sp">>,
     Rep("a", ProcDescLimit - 1) \o <<"zh", "sp", "a">>}

TitleInputs == {<<"sp", "a", "sp">>, <<"zh", "bad", "a">>}

\* items with short texts on every link, and items with long descriptions
ProcItems ==
    [Title : TitleInputs, URL : Links, Source : {"baidu"},
     Description : {<<>>, <<"sp", "sp">>, <<"sp", "a", "bad", "bad", "zh", "sp">>},
     PublishedAt : {StartInstant}, HotScore : {1}, RawData : {1}]
    \cup
    [Title : {<<"a">>}, URL : {<<"url", 1>>}, Source : {"baidu"},
     Description : LongTexts,
     PublishedAt : {StartInstant}, HotScore : {1}, RawData : {1}]

(***************************************************************************)
(* SpecProc: one cycle's Process and SaveBatch on a batch drawn in Init    *)
(***************************************************************************)
SeedItem ==
    [Title |-> <<"a">>, URL |-> <<"url", 1>>, Source |-> "baidu",
     Description |-> <<"a", "a">>, PublishedAt |-> 0, HotScore |-> 0, RawData |-> 0]

SeedShards == {EmptyShards, SaveBatch(EmptyShards, Process(<<SeedItem>>), 0, NoFault).sh}

GateIdle == gateT = [utc |-> 0, off |-> 0] /\ gateOpen = FALSE

\* no Basic Auth configured, no request received
NoRequest == [path |-> <<>>, header |-> <<"none">>]
NoResponse == [status |-> 0, handled |-> FALSE, challenge |-> FALSE]
HttpIdle ==
    /\ cfg = [BasicAuthUser |-> <<>>, BasicAuthPass |-> <<>>]
    /\ request = NoRequest
    /\ response = NoResponse

\* the A-share fetcher as main builds it, with HasTodayData; Fetch not called
NoFetch == [called |-> FALSE, has |-> "uncalled", upstream |-> FALSE, items |-> 0, err |-> FALSE]
FetchIdle ==
    /\ fetcher = [HasTodayData |-> TRUE]
    /\ fetched = NoFetch

\* NewStore returned a store at the first attempt; no read has been made
ReadIdle ==
    /\ boot = [state |-> "ready", dbOk |-> TRUE, pingOk |-> TRUE]
    /\ cache = {}
    /\ query = None
    /\ commits = <<>>
    /\ lastOp = NoOp

\* the number of jobs without a gate that the scheduler is given
NumPlainJobs == 1

\* the fetchers without a gate, in the order main registers them
PlainJobs == <<"baidu", "gold", "hackernews", "github">>

\* the jobs of the scheduler: the A-share fetcher and the first plain ones
Jobs == {"ashare"} \cup {PlainJobs[i] : i \in 1..NumPlainJobs}

\* what triggers a call of runFetcher: RunOnce, or the job's cron entry
Origins == {"once", "tick"}
TaskIds == Jobs \X Origins

\* no call of runFetcher in progress
IdleTask == [pc |-> "idle", batch |-> <<>>, k |-> 0, id |-> <<>>, out |-> None]

\* the scheduler before Start or RunOnce
SchedIdle ==
    /\ tasks = [t \in TaskIds |-> IdleTask]
    /\ alive = TRUE
    /\ round = [calls |-> 0, open |-> FALSE, wg |-> 0]
    /\ fires = 0
    /\ faulty = None

InitProc ==
    /\ shards \in SeedShards
    /\ now = StartInstant
    /\ lastRaw \in SeqUpTo(ProcItems, MaxBatch)
    /\ lastOut = None
    /\ lastErr = None
    /\ GateIdle
    /\ HttpIdle
    /\ FetchIdle
    /\ ReadIdle
    /\ SchedIdle

\* the body of runFetcher after Fetch returned lastRaw: Process, then SaveBatch
RunPipeline ==
    /\ lastOut = None
    /\ lastOut' = Process(lastRaw)
    /\ LET res == SaveBatch(shards, lastOut', now, NoFault)
       IN  shards' = res.sh /\ lastErr' = res.err
    /\ UNCHANGED <<now, lastRaw, gateVars, httpVars, fetchVars, readVars, schedVars>>

NextProc == RunPipeline

SpecProc == InitProc /\ [][NextProc]_vars

(***************************************************************************)
(* SpecGate: isAshareMarketOpen at every minute of a week, in several zones*)
(***************************************************************************)
GateZones == {0 - 8 * 60, 0, East8Offset, 9 * 60}

InitGate ==
    /\ shards = EmptyShards
    /\ now = StartInstant
    /\ lastRaw = <<>> /\ lastOut = None /\ lastErr = None
    /\ gateT \in [utc : MinutesPerWeek..(2 * MinutesPerWeek - 1), off : GateZones]
    /\ gateOpen = isAshareMarketOpen(gateT)
    /\ HttpIdle
    /\ FetchIdle
    /\ ReadIdle
    /\ SchedIdle

\* the next minute, asked in the same zone
GateCheck ==
    /\ gateT' = [gateT EXCEPT !.utc = MinutesPerWeek + ((@ + 1) % MinutesPerWeek)]
    /\ gateOpen' = isAshareMarketOpen(gateT')
    /\ UNCHANGED <<storeVars, procVars, httpVars, fetchVars, readVars, schedVars>>

NextGate == GateCheck

SpecGate == InitGate /\ [][NextGate]_vars

(***************************************************************************)
(* Claims on the processor and the stored description (SpecProc)           *)
(***************************************************************************)
\* positions of the items that are the first of the batch to carry their link
FirstOccurrences(items) ==
    {k \in 1..Len(items) : \A j \in 1..(k - 1) : items[j].URL # items[k].URL}

\* the i-th smallest member of a set of numbers
NthOf(S, i) == CHOOSE k \in S : Cardinality({j \in S : j <= k}) = i

\* C4: Process returns each id exactly once; the i-th output record is built from
\* the i-th first-occurrence of a link in the input (later items with that link are
\* dropped, the relative order of the kept items is the input order).
C4_ProcessKeepsFirstOccurrence ==
    lastOut # None =>
        LET firsts == FirstOccurrences(lastRaw)
        IN  /\ Len(lastOut) = Cardinality(firsts)
            /\ \A i, j \in 1..Len(lastOut) : i # j => lastOut[i].ID # lastOut[j].ID
            /\ \A k \in 1..Len(lastRaw) :
                   Cardinality({i \in 1..Len(lastOut) :
                                   lastOut[i].ID = hashURL(lastRaw[k].URL)}) = 1
            /\ \A i \in 1..Len(lastOut) :
                   LET src == lastRaw[NthOf(firsts, i)]
                   IN  /\ lastOut[i].URL = src.URL
                       /\ lastOut[i].Title = TrimSpace(src.Title)
                       /\ lastOut[i] = ProcessOne(src)

\* C4 witness: a batch of two items with the same link and different titles was
\* processed into one record.
C4_Witness ==
    /\ lastOut # None
    /\ Len(lastRaw) = 2
    /\ lastRaw[1].URL = lastRaw[2].URL
    /\ TrimSpace(lastRaw[1].Title) # TrimSpace(lastRaw[2].Title)
    /\ Len(lastOut) = 1

\* C5 (as claimed): every description stored after Process and SaveBatch has at
\* most 600 characters, holds no invalid byte, and ends with the ellipsis whenever
\* the fetched description (trimmed) had more than 600 characters.
C5_StoredDescriptionEndsWithEllipsis ==
    lastOut # None =>
        \A k \in FirstOccurrences(lastRaw) :
            \A r \in shards[newsTable(lastRaw[k].Source)] :
                r.URL = lastRaw[k].URL =>
                    /\ Len(ToRunes(r.Description)) <= DbDescLimit
                    /\ \A i \in 1..Len(r.Description) : r.Description[i] # "bad"
                    /\ (Len(ToRunes(TrimSpace(lastRaw[k].Description))) > ProcDescLimit
                            => r.Description[Len(r.Description)] = "ell")

(***************************************************************************)
(* Claims on the gate's clock (SpecGate)                                   *)
(***************************************************************************)
\* C6: isAshareMarketOpen(t) is true exactly when the UTC+8 wall clock of t is on
\* Monday..Friday and its minute of day is in 09:30..11:30 or 13:00..15:00,
\* whatever zone t is shown in.
C6_MarketOpenExactlyInSessions ==
    LET bj == (gateT.utc + 8 * 60) % MinutesPerWeek
        day == bj \div MinutesPerDay
        mod == bj % MinutesPerDay
    IN  gateOpen <=> /\ day <= 4
                     /\ \/ (mod >= 570 /\ mod <= 690)
                        \/ (mod >= 780 /\ mod <= 900)

\* C6 witness: the market is open (Monday morning in UTC+8) at an instant whose
\* wall clock in the caller's zone, eight hours west of UTC, still shows Sunday.
C6_Witness ==
    /\ gateOpen
    /\ gateT.off = 0 - 8 * 60
    /\ Weekday(gateT) = Sunday

(***************************************************************************)
(* SpecSeq: cycles run one after the other against one store               *)
(***************************************************************************)
MaxCycles == 2

\* time that passes between two cycles
ClockStep == 12 * 60

\* the version of its content a source reports at instant t: it alternates
\* from one cycle to the next
VersionAt(t) == 1 + ((t \div ClockStep) % 2)

\* what a source reports about a link at instant t
RawItem(url, src, t) ==
    [Title |-> IF VersionAt(t) = 1 THEN <<"a">> ELSE <<"zh", "a">>,
     URL |-> url,
     Source |-> src,
     Description |-> IF VersionAt(t) = 1 THEN <<>> ELSE <<"zh", "zh", "zh">>,
     PublishedAt |-> t,
     HotScore |-> VersionAt(t),
     RawData |-> VersionAt(t)]

\* a link reported by a source whose channel, "weibo", has no table
OtherLink == <<"url", 0>>

SeqItems(t) ==
    {RawItem(url, "baidu", t) : url \in Links} \cup {RawItem(OtherLink, "weibo", t)}

\* the statement of SaveBatch that the database refuses, if any
FaultsFor(items) == {NoFault} \cup [at : 1..Len(items), op : {"first", "update"}]

InitSeq ==
    /\ shards = EmptyShards
    /\ now = StartInstant
    /\ lastRaw = <<>>
    /\ lastOut = None
    /\ lastErr = None
    /\ GateIdle
    /\ HttpIdle
    /\ FetchIdle
    /\ ReadIdle
    /\ SchedIdle

\* one cycle of runFetcher whose Fetch returned raw: Process, then SaveBatch
SeqCycle(raw, fault) ==
    /\ now < StartInstant + MaxCycles * ClockStep
    /\ raw # <<>>
    /\ lastRaw' = <<>>
    /\ lastOut' = Process(raw)
    /\ LET res == SaveBatch(shards, lastOut', now, fault)
       IN  shards' = res.sh /\ lastErr' = res.err
    /\ now' = now + ClockStep
    /\ UNCHANGED <<gateVars, httpVars, fetchVars, readVars, schedVars>>

NextSeq ==
    \E raw \in SeqUpTo(SeqItems(now), MaxBatch) :
        \E fault \in FaultsFor(Process(raw)) : SeqCycle(raw, fault)

SpecSeq == InitSeq /\ [][NextSeq]_vars

\* C2: when a SaveBatch call that returns no error carries a link that an earlier
\* call already stored, the shard afterwards holds exactly one row for the link,
\* with the id and creation time the earlier call set and with the title,
\* description, hotScore, publishedAt, publishedDate and extra of this call.
C2_UpsertKeepsIdTakesNewFields ==
    [][(now' # now /\ lastErr' = FALSE) =>
          \A i \in 1..Len(lastOut') :
              LET it == lastOut'[i]
                  tbl == newsTable(it.Source)
              IN  tbl # "" =>
                      \A old \in shards[tbl] :
                          old.URL = it.URL =>
                              /\ Cardinality({r \in shards'[tbl] : r.URL = it.URL}) = 1
                              /\ \A r \in shards'[tbl] :
                                     r.URL = it.URL =>
                                         /\ r.ID = old.ID
                                         /\ r.CreatedAt = old.CreatedAt
                                         /\ r.Title = it.Title
                                         /\ r.Description = it.Description
                                         /\ r.HotScore = it.HotScore
                                         /\ r.PublishedAt = it.PublishedAt
                                         /\ r.PublishedDate = East8Date(it.PublishedAt)
                                         /\ r.ExtraData = it.RawData]_vars

\* C2 witness: a row created by one call was updated by a later call that
\* carried its link with another title and score, on another UTC+8 day.
C2_Witness ==
    /\ now > StartInstant
    /\ lastErr = FALSE
    /\ \E r \in shards["news_baidu"] :
           /\ r.CreatedAt < r.UpdatedAt
           /\ r.PublishedDate # East8Date(r.CreatedAt)
           /\ \E i \in 1..Len(lastOut) :
                  lastOut[i].URL = r.URL /\ lastOut[i].HotScore = r.HotScore

(***************************************************************************)
(* Store: reads                                                            *)
(***************************************************************************)
Min(a, b) == IF a <= b THEN a ELSE b

\* the empty date string (a day filter that is not given, a row without a day)
NoDate == 0 - 1

\* all the orders in which the members of S can be listed
Perms(S) ==
    {f \in [1..Cardinality(S) -> S] : \A i, j \in 1..Cardinality(S) : i # j => f[i] # f[j]}

\* ORDER BY published_at DESC, and the less function of sortByPublishedAtDesc
NewerFirst(a, b) == a.PublishedAt > b.PublishedAt

\* ORDER BY published_at ASC
OlderFirst(a, b) == a.PublishedAt < b.PublishedAt

\* ORDER BY hot_score DESC, published_at DESC, and the less function of sortByHotScoreDesc
HotFirst(a, b) ==
    IF a.HotScore # b.HotScore THEN a.HotScore > b.HotScore
    ELSE a.PublishedAt > b.PublishedAt

\* the orders a sort or an ORDER BY may return: rows that compare equal come in any order
OrderedBy(S, Less(_, _)) ==
    {s \in Perms(S) : \A i, j \in 1..Len(s) : i < j => ~ Less(s[j], s[i])}

\* LIMIT n, and list[:n]
Truncate(s, n) == SubSeq(s, 1, Min(n, Len(s)))

\* dateWhere: published_date = ? OR (published_date is blank AND the UTC+8 day of published_at = ?)
DateWhere(r, date) ==
    \/ r.PublishedDate = date
    \/ (r.PublishedDate = NoDate /\ East8Date(r.PublishedAt) = date)

\* the start of the UTC+8 day of instant t
StartOfDay(t) == East8Date(t) * MinutesPerDay - East8Offset

\* time.ParseInLocation("2006-01-02", date, locEast8)
ParseDate(date) == date * MinutesPerDay - East8Offset

GoldCap == 500
DefaultLimit == 20
MaxStoreLimit == 1000
DefaultDatesLimit == 31
MaxDatesLimit == 365
\* 5 * time.Minute
ListCacheTTL == 5

\* rows of tbl under an optional day filter; none when the query fails
Selected(sh, tbl, date, dbFail) ==
    IF tbl \in dbFail THEN {}
    ELSE {r \in sh[tbl] : date = NoDate \/ DateWhere(r, date)}

GoldListsIgnoreLimit(sh, limit, date, t, dbFail) ==
    LET startOfDay == IF date # NoDate THEN ParseDate(date) ELSE StartOfDay(t)
        pick(tbl) ==
            IF tbl \in dbFail THEN {}
            ELSE {r \in sh[tbl] : IF date # NoDate THEN DateWhere(r, date)
                                  ELSE r.PublishedAt >= startOfDay}
    IN  {Truncate(g, GoldCap) \o Truncate(a, GoldCap) :
            g \in OrderedBy(pick("news_gold"), OlderFirst),
            a \in OrderedBy(pick("news_ashare"), OlderFirst)}

\* the channel = "gold" branch of ListNews: news_gold then news_ashare, oldest first
GoldLists(sh, limit, date, t, dbFail) ==
    LET startOfDay == IF date # NoDate THEN ParseDate(date) ELSE StartOfDay(t)
        pick(tbl) ==
            IF tbl \in dbFail THEN {}
            ELSE {r \in sh[tbl] : IF date # NoDate THEN DateWhere(r, date)
                                  ELSE r.PublishedAt >= startOfDay}
    IN  {Truncate(Truncate(g, GoldCap) \o Truncate(a, GoldCap), limit) :
            g \in OrderedBy(pick("news_gold"), OlderFirst),
            a \in OrderedBy(pick("news_ashare"), OlderFirst)}

\* the single-channel branch: one table, ordered in SQL, LIMIT limit
SingleLists(sh, tbl, sort, limit, date) ==
    LET rows == Selected(sh, tbl, date, {})
    IN  {Truncate(s, limit) :
            s \in IF sort = "hot" THEN OrderedBy(rows, HotFirst)
                  ELSE OrderedBy(rows, NewerFirst)}

\* what the loop over sourceToTable can collect: from each table its limit*2 most
\* recent rows (a failing query contributes nothing)
RECURSIVE MergedParts(_, _, _, _, _)
MergedParts(sh, tbls, limit, date, dbFail) ==
    IF tbls = {} THEN {{}}
    ELSE LET tbl == CHOOSE x \in tbls : TRUE
             rest == MergedParts(sh, tbls \ {tbl}, limit, date, dbFail)
             parts == {Truncate(s, limit * 2) :
                          s \in OrderedBy(Selected(sh, tbl, date, dbFail), NewerFirst)}
         IN  {{p[i] : i \in 1..Len(p)} \cup m : p \in parts, m \in rest}

MergedListsNoTruncate(sh, sort, limit, date, dbFail) ==
    UNION {IF sort = "hot" THEN OrderedBy(m, HotFirst) ELSE OrderedBy(m, NewerFirst) :
              m \in MergedParts(sh, Tables, limit, date, dbFail)}

\* the channel = "" branch: merge, sort by the mode, cut to limit
MergedLists(sh, sort, limit, date, dbFail) ==
    UNION {{Truncate(s, limit) :
               s \in IF sort = "hot" THEN OrderedBy(m, HotFirst) ELSE OrderedBy(m, NewerFirst)} :
              m \in MergedParts(sh, Tables, limit, date, dbFail)}

\* ListNews after the cache lookup missed: the outcomes ([list, err]) the shard
\* queries can produce; limit and sort are already normalised
ListNewsQuery(sh, channel, sort, limit, date, t, dbFail) ==
    IF channel = "gold"
    THEN {[list |-> l, err |-> FALSE] : l \in GoldLists(sh, limit, date, t, dbFail)}
    ELSE IF channel # "" /\ newsTable(channel) # ""
    THEN IF newsTable(channel) \in dbFail THEN {[list |-> <<>>, err |-> TRUE]}
         ELSE {[list |-> l, err |-> FALSE] :
                  l \in SingleLists(sh, newsTable(channel), sort, limit, date)}
    ELSE {[list |-> l, err |-> FALSE] : l \in MergedLists(sh, sort, limit, date, dbFail)}

\* the day a row counts for in ListPublishedDates
RowDay(r) == IF r.PublishedDate # NoDate THEN r.PublishedDate ELSE East8Date(r.PublishedAt)

\* the k largest members of a set of days, largest first
RECURSIVE DescDays(_, _)
DescDays(S, k) ==
    IF S = {} \/ k <= 0 THEN <<>>
    ELSE LET m == CHOOSE x \in S : \A y \in S : y <= x
         IN  <<m>> \o DescDays(S \ {m}, k - 1)

DateTablesGoldAlone(channel) ==
    IF channel = "" THEN Tables
    ELSE IF newsTable(channel) # "" THEN {newsTable(channel)}
    ELSE {}

\* the tables ListPublishedDates reads for a channel
DateTables(channel) ==
    IF channel = "" THEN Tables
    ELSE IF channel = "gold" THEN {"news_gold", "news_ashare"}
    ELSE IF newsTable(channel) # "" THEN {newsTable(channel)}
    ELSE {}

\* ListPublishedDates after the cache lookup missed
PublishedDatesQuery(sh, channel, limit, dbFail) ==
    LET perTable(tbl) ==
            IF tbl \in dbFail THEN {}
            ELSE LET days == DescDays({RowDay(r) : r \in sh[tbl]}, limit)
                 IN  {days[i] : i \in 1..Len(days)}
    IN  DescDays(UNION {perTable(tbl) : tbl \in DateTables(channel)}, limit)

(***************************************************************************)
(* SpecRead: NewStore, then ListNews and ListPublishedDates through the    *)
(* cache, against a store that cycles have filled                          *)
(***************************************************************************)
MaxLimit == 2
MaxTicks == 1

dbConnectRetries == 10

\* time that passes between two reads
TickStep == ListCacheTTL

Today == East8Date(StartInstant)

\* a fetched item of a channel, with its score and publication instant
SeedRaw(i, src, hot, t) ==
    [Title |-> <<"a">>, URL |-> <<"url", i>>, Source |-> src, Description |-> <<"a">>,
     PublishedAt |-> t, HotScore |-> hot, RawData |-> 0]

SeedBatches ==
    {<<>>,
     \* the older a baidu row, the hotter; one gold and one ashare row of today
     <<SeedRaw(1, "baidu", 9, StartInstant - 2 * MinutesPerDay),
       SeedRaw(2, "baidu", 5, StartInstant - MinutesPerDay),
       SeedRaw(3, "baidu", 1, StartInstant - 60),
       SeedRaw(4, "gold", 7, StartInstant - 30),
       SeedRaw(5, "ashare", 3, StartInstant - 20)>>,
     \* rows that tie on score and on instant, in two shards
     <<SeedRaw(1, "baidu", 4, StartInstant - 60),
       SeedRaw(2, "baidu", 4, StartInstant - 60),
       SeedRaw(3, "github", 4, StartInstant - MinutesPerDay),
       SeedRaw(4, "gold", 2, StartInstant - MinutesPerDay)>>}

Queries ==
    [channel : {"", "baidu", "gold", "weibo"}, sort : {"", "hot"},
     limit : 1..MaxLimit, date : {NoDate, Today}]

InitRead ==
    /\ \E b \in SeedBatches :
           shards = SaveBatch(EmptyShards, Process(b), StartInstant - 5, NoFault).sh
    /\ now = StartInstant
    /\ lastRaw = <<>> /\ lastOut = None /\ lastErr = None
    /\ GateIdle
    /\ HttpIdle
    /\ FetchIdle
    /\ SchedIdle
    /\ boot = [state |-> "starting", dbOk |-> TRUE, pingOk |-> TRUE]
    /\ cache = {}
    /\ query \in Queries
    /\ commits = <<>>
    /\ lastOp = NoOp

\* what NewStore returns and does when the first `failures` attempts to open the
\* database fail (dbConnectRetries or more: all of them), the tables can or cannot
\* be created, and Redis answers the ping or not
NewStoreResult(failures, migrateOk, pingOk) ==
    [err |-> failures >= dbConnectRetries \/ ~ migrateOk,
     attempts |-> Min(failures + 1, dbConnectRetries),
     sleeps |-> Min(failures, dbConnectRetries - 1)]

\* main: NewStore, and log.Fatalf when it returns an error
NewStore(failures, migrateOk, pingOk) ==
    /\ boot.state = "starting"
    /\ boot' = [state |-> IF NewStoreResult(failures, migrateOk, pingOk).err
                          THEN "fatal" ELSE "ready",
                dbOk |-> (failures < dbConnectRetries /\ migrateOk),
                pingOk |-> pingOk]
    /\ UNCHANGED <<storeVars, procVars, gateVars, httpVars, fetchVars, cache, query, commits, lastOp, schedVars>>

CacheGetIgnoresExpiry(key, t) == {e \in cache : e.key = key}

\* s.Redis.Get(key).Bytes(): the bytes of the entry that has not expired
CacheGet(key, t) == {e \in cache : e.key = key /\ e.exp > t}

CacheSetNoExpiry(key, val, t, ttl) ==
    {e \in cache : e.key # key} \cup
        {[key |-> key, val |-> val, exp |-> t + ttl + MaxTicks * TickStep + 1]}

\* s.Redis.Set(key, bs, ttl)
CacheSet(key, val, t, ttl) ==
    {e \in cache : e.key # key} \cup {[key |-> key, val |-> val, exp |-> t + ttl]}

\* json.Marshal of a result; bytes that json.Unmarshal refuses are <<"garbage">>
Marshal(v) == <<"json", v>>
Decodable(bs) == bs[1] = "json"
Unmarshal(bs) == bs[2]

EffLimit(limit) == IF limit <= 0 \/ limit > MaxStoreLimit THEN DefaultLimit ELSE limit
EffSort(sort) == IF sort = "" THEN "latest" ELSE sort
EffDatesLimit(limit) ==
    IF limit <= 0 \/ limit > MaxDatesLimit THEN DefaultDatesLimit ELSE limit

\* the record of a read: its kind, the faults met, and what it returned
ReadOp(op, hit, getOk, setOk, dbFail, corrupt, list, err) ==
    [op |-> op, hit |-> hit,
     cacheFault |-> IF ~ getOk THEN "get" ELSE IF corrupt THEN "decode"
                    ELSE IF ~ setOk THEN "set" ELSE None,
     dbFail |-> dbFail, list |-> list, err |-> err]

ListNewsFailsOnCacheError(getOk, setOk, dbFail) ==
    LET limit == EffLimit(query.limit)
        sort == EffSort(query.sort)
        key == <<"news:list", query.channel, sort, limit, query.date>>
        got == IF getOk THEN CacheGet(key, now) ELSE {}
        hit == \E e \in got : Decodable(e.val)
    IN  /\ boot.state = "ready"
        /\ IF ~ getOk
           THEN /\ lastOp' = ReadOp("ListNews", FALSE, getOk, TRUE, {}, FALSE, <<>>, TRUE)
                /\ cache' = cache
           ELSE IF hit
           THEN /\ \E e \in got :
                       lastOp' = ReadOp("ListNews", TRUE, getOk, TRUE, {}, FALSE,
                                        Unmarshal(e.val), FALSE)
                /\ cache' = cache
           ELSE \E out \in ListNewsQuery(shards, query.channel, sort, limit, query.date,
                                         now, dbFail) :
                    /\ lastOp' = ReadOp("ListNews", FALSE, getOk, setOk, dbFail, got # {},
                                        out.list, out.err)
                    /\ cache' = IF ~ out.err /\ Len(out.list) > 0 /\ setOk
                                THEN CacheSet(key, Marshal(out.list), now, ListCacheTTL)
                                ELSE cache
        /\ UNCHANGED <<storeVars, procVars, gateVars, httpVars, fetchVars, boot, query, commits, schedVars>>

\* Store.ListNews(query.channel, query.sort, query.limit, query.date); getOk and
\* setOk: whether Redis answers the Get and the Set; dbFail: the tables whose
\* query fails
ListNews(getOk, setOk, dbFail) ==
    LET limit == EffLimit(query.limit)
        sort == EffSort(query.sort)
        key == <<"news:list", query.channel, sort, limit, query.date>>
        got == IF getOk THEN CacheGet(key, now) ELSE {}
        hit == \E e \in got : Decodable(e.val)
    IN  /\ boot.state = "ready"
        /\ IF hit
           THEN /\ \E e \in got :
                       lastOp' = ReadOp("ListNews", TRUE, getOk, TRUE, {}, FALSE,
                                        Unmarshal(e.val), FALSE)
                /\ cache' = cache
           ELSE \E out \in ListNewsQuery(shards, query.channel, sort, limit, query.date,
                                         now, dbFail) :
                    /\ lastOp' = ReadOp("ListNews", FALSE, getOk, setOk, dbFail, got # {},
                                        out.list, out.err)
                    /\ cache' = IF ~ out.err /\ Len(out.list) > 0 /\ setOk
                                THEN CacheSet(key, Marshal(out.list), now, ListCacheTTL)
                                ELSE cache
        /\ UNCHANGED <<storeVars, procVars, gateVars, httpVars, fetchVars, boot, query, commits, schedVars>>

\* Store.ListPublishedDates(query.channel, query.limit)
ListPublishedDates(getOk, setOk, dbFail) ==
    LET limit == EffDatesLimit(query.limit)
        key == <<"news:dates", query.channel, limit>>
        got == IF getOk THEN CacheGet(key, now) ELSE {}
        hit == \E e \in got : Decodable(e.val)
        dates == PublishedDatesQuery(shards, query.channel, limit, dbFail)
    IN  /\ boot.state = "ready"
        /\ IF hit
           THEN /\ \E e \in got :
                       lastOp' = ReadOp("ListPublishedDates", TRUE, getOk, TRUE, {}, FALSE,
                                        Unmarshal(e.val), FALSE)
                /\ cache' = cache
           ELSE /\ lastOp' = ReadOp("ListPublishedDates", FALSE, getOk, setOk, dbFail,
                                    got # {}, dates, FALSE)
                /\ cache' = IF setOk /\ (DateTables(query.channel) = {} \/ Len(dates) > 0)
                            THEN CacheSet(key, Marshal(dates), now, ListCacheTTL)
                            ELSE cache
        /\ UNCHANGED <<storeVars, procVars, gateVars, httpVars, fetchVars, boot, query, commits, schedVars>>

\* something other than the store overwrites an entry with bytes that do not decode
CacheCorrupt ==
    /\ \E e \in cache :
           /\ Decodable(e.val)
           /\ cache' = (cache \ {e}) \cup {[e EXCEPT !.val = <<"garbage">>]}
    /\ UNCHANGED <<storeVars, procVars, gateVars, httpVars, fetchVars, boot, query, commits, lastOp, schedVars>>

\* time passes; Redis drops the entries whose TTL has run out
ReadTick ==
    /\ now < StartInstant + MaxTicks * TickStep
    /\ now' = now + TickStep
    /\ cache' = {e \in cache : e.exp > now'}
    /\ UNCHANGED <<shards, procVars, gateVars, httpVars, fetchVars, boot, query, commits, lastOp, schedVars>>

DbFaults == {{}, {"news_baidu"}}

NextRead ==
    \/ \E failures \in {0, dbConnectRetries - 1, dbConnectRetries}, migrateOk, pingOk \in BOOLEAN :
           NewStore(failures, migrateOk, pingOk)
    \/ \E getOk, setOk \in BOOLEAN, dbFail \in DbFaults : ListNews(getOk, setOk, dbFail)
    \/ \E getOk, setOk \in BOOLEAN, dbFail \in DbFaults : ListPublishedDates(getOk, setOk, dbFail)
    \/ CacheCorrupt
    \/ ReadTick

SpecRead == InitRead /\ [][NextRead]_vars

(***************************************************************************)
(* Claims about the reads                                                  *)
(***************************************************************************)
\* the rows of all shards that pass the day filter of the query
MatchingRows == UNION {Selected(shards, tbl, query.date, {}) : tbl \in Tables}

\* the last operation was ListNews(channel = "") answered by the shards
MergedMiss == lastOp.op = "ListNews" /\ ~ lastOp.hit /\ query.channel = ""

\* C8: ListNews with the channel unset, on a cache miss, returns rows of the
\* shards (each at most once, and min(limit, rows that match) of them when every
\* shard query succeeds), in the order of the requested mode (recency:
\* PublishedAt descending; popularity: HotScore descending, ties by PublishedAt
\* descending), and never more than limit rows, also when more rows match.
C8_MergedListSortedWithinLimit ==
    MergedMiss =>
        LET list == lastOp.list
            n == Len(list)
        IN  /\ ~ lastOp.err
            /\ n <= query.limit
            /\ \A i \in 1..n : list[i] \in MatchingRows
            /\ \A i, j \in 1..n : i # j => list[i] # list[j]
            /\ lastOp.dbFail = {} => n = Min(query.limit, Cardinality(MatchingRows))
            /\ \A i, j \in 1..n : i < j =>
                   IF query.sort = "hot"
                   THEN \/ list[i].HotScore > list[j].HotScore
                        \/ /\ list[i].HotScore = list[j].HotScore
                           /\ list[i].PublishedAt >= list[j].PublishedAt
                   ELSE list[i].PublishedAt >= list[j].PublishedAt

\* C8 witness: a popularity read over shards that hold more matching rows than
\* the limit returned limit rows that come from two different shards
C8_Witness ==
    /\ MergedMiss
    /\ query.sort = "hot"
    /\ Cardinality(MatchingRows) > query.limit
    /\ Len(lastOp.list) = query.limit
    /\ \E i, j \in 1..Len(lastOp.list) : lastOp.list[i].Source # lastOp.list[j].Source

\* C9: a read that met a cache fault (Get failed, the bytes did not decode, or
\* Set failed) returns what the shard query returns, with an error only when
\* the shard query itself failed; and NewStore fails only when the database
\* could not be opened or migrated, never because Redis did not answer the ping.
C9_CacheFaultNeverFailsRead ==
    /\ (lastOp.op = "ListNews" /\ lastOp.cacheFault # None) =>
           /\ ~ lastOp.hit
           /\ [list |-> lastOp.list, err |-> lastOp.err] \in
                  ListNewsQuery(shards, query.channel, EffSort(query.sort),
                                EffLimit(query.limit), query.date, now, lastOp.dbFail)
           /\ lastOp.err => (newsTable(query.channel) \in lastOp.dbFail)
    /\ (lastOp.op = "ListPublishedDates" /\ lastOp.cacheFault # None) =>
           /\ ~ lastOp.hit
           /\ ~ lastOp.err
           /\ lastOp.list = PublishedDatesQuery(shards, query.channel,
                                                EffDatesLimit(query.limit), lastOp.dbFail)
    /\ (boot.state # "starting" /\ boot.dbOk) => boot.state = "ready"

\* C9 witness: the store came up although Redis did not answer the ping, and a
\* ListNews that found undecodable bytes under its key returned rows
C9_Witness ==
    /\ boot.state = "ready" /\ ~ boot.pingOk
    /\ lastOp.op = "ListNews"
    /\ lastOp.cacheFault = "decode"
    /\ ~ lastOp.err /\ Len(lastOp.list) > 0

(***************************************************************************)
(* Scheduler: RunOnce and the cron entries call runFetcher, one goroutine  *)
(* per call; the calls interleave at Fetch and at each statement SaveBatch *)
(* sends to the database                                                   *)
(***************************************************************************)
MaxRounds == 2
MaxFires == 1
MaxClock == 1

\* time that passes between two readings of the clock: the */3 of the A-share entry
SchedStep == 3

\* Wednesday 20:00 in UTC+8: the market has closed on a trading day
ClosedEvening == 2 * MinutesPerDay + 12 * 60

\* Wednesday 14:58 in UTC+8: the market closes within one SchedStep
BeforeClose == 2 * MinutesPerDay + 6 * 60 + 58

\* the instants at which the scheduler is started
SchedStarts == {BeforeClose, ClosedEvening}

Instant(t) == [utc |-> t, off |-> 0]

\* Store.HasAshareDataForDate; countOk: whether the count query succeeds
HasAshareDataForDate(sh, date, countOk) ==
    IF ~ countOk THEN FALSE
    ELSE \E r \in sh["news_ashare"] : DateWhere(r, date)

\* the HasTodayData closure main hands to the A-share fetcher
HasTodayData(sh, t, countOk) == HasAshareDataForDate(sh, East8Date(t), countOk)

AshareGateNoDataCheck(sh, t, countOk) ==
    IF isAshareMarketOpen(Instant(t)) THEN TRUE
    ELSE isAshareTradingWeekday(Instant(t))

\* the head of AShareIndexFetcher.Fetch: TRUE when the fetch goes on to the
\* upstream requests
AshareGate(sh, t, countOk) ==
    IF isAshareMarketOpen(Instant(t)) THEN TRUE
    ELSE IF ~ isAshareTradingWeekday(Instant(t)) THEN FALSE
    ELSE ~ HasTodayData(sh, t, countOk)

\* what a job's Fetch returns at instant t when upstream answers: the A-share
\* item carries the instant in its link (?t=<UnixMilli>)
FetchedItems(j, t) ==
    IF j = "ashare" THEN <<RawItem(<<"quote", t>>, "ashare", t)>>
    ELSE <<RawItem(<<"url", 1>>, j, t)>>

\* the record SaveBatch is at
Cur(t) == tasks[t].batch[tasks[t].k]

FinishStopsOthers(t, out) ==
    /\ tasks' = [u \in TaskIds |->
                    IF u = t \/ out \in {"error", "saveFault", "saveConflict"}
                    THEN [IdleTask EXCEPT !.out = out]
                    ELSE tasks[u]]
    /\ round' = IF t[2] = "once" THEN [round EXCEPT !.wg = @ - 1] ELSE round

FinishOrFailed(t, out) ==
    /\ tasks' = [tasks EXCEPT ![t] =
                    IF out \in {"error", "panic", "saveFault", "saveConflict"}
                    THEN [IdleTask EXCEPT !.pc = "failed", !.out = out]
                    ELSE [IdleTask EXCEPT !.out = out]]
    /\ round' = IF t[2] = "once" THEN [round EXCEPT !.wg = @ - 1] ELSE round

\* runFetcher returns with outcome out; in a goroutine of RunOnce the deferred
\* wg.Done() runs
Finish(t, out) ==
    /\ tasks' = [tasks EXCEPT ![t] = [IdleTask EXCEPT !.out = out]]
    /\ round' = IF t[2] = "once" THEN [round EXCEPT !.wg = @ - 1] ELSE round

PanicInFetchNoRecover(t) ==
    /\ Finish(t, "panic")
    /\ alive' = FALSE

\* Fetch panics: the deferred recover of runFetcher logs it and runFetcher returns
PanicInFetch(t) ==
    /\ Finish(t, "panic")
    /\ alive' = TRUE

\* RunOnce: wg.Add(1) and a goroutine per job, then wg.Wait()
RunOnceCall ==
    /\ alive /\ ~ round.open /\ round.calls < MaxRounds
    /\ tasks' = [t \in TaskIds |->
                    IF t[2] = "once" THEN [IdleTask EXCEPT !.pc = "fetch"] ELSE tasks[t]]
    /\ round' = [calls |-> round.calls + 1, open |-> TRUE, wg |-> Cardinality(Jobs)]
    /\ UNCHANGED <<storeVars, procVars, gateVars, httpVars, fetchVars, readVars, alive, fires, faulty>>

\* wg.Wait() returns and so does RunOnce
RunOnceReturn ==
    /\ alive /\ round.open /\ round.wg = 0
    /\ round' = [round EXCEPT !.open = FALSE]
    /\ UNCHANGED <<storeVars, procVars, gateVars, httpVars, fetchVars, readVars, tasks, alive, fires, faulty>>

\* cron fires the entry of job j: func() { s.runFetcher(j.Fetcher) }
Fire(j) ==
    /\ alive /\ fires < MaxFires
    /\ tasks[<<j, "tick">>].pc = "idle"
    /\ tasks' = [tasks EXCEPT ![<<j, "tick">>] = [IdleTask EXCEPT !.pc = "fetch"]]
    /\ fires' = fires + 1
    /\ UNCHANGED <<storeVars, procVars, gateVars, httpVars, fetchVars, readVars, alive, round, faulty>>

FetchReturnRetries(t, res, countOk) ==
    /\ alive /\ tasks[t].pc = "fetch"
    /\ faulty = t[1] => res = "panic"
    /\ IF res = "panic" THEN PanicInFetch(t)
       ELSE /\ alive' = alive
            /\ IF t[1] = "ashare" /\ ~ AshareGate(shards, now, countOk)
               THEN Finish(t, "skip")
               ELSE IF res = "error" /\ tasks[t].out # "error"
               THEN /\ tasks' = [tasks EXCEPT ![t].out = "error"]
                    /\ round' = round
               ELSE IF res = "error" THEN Finish(t, "error")
               ELSE IF res = "empty" \/ Process(FetchedItems(t[1], now)) = <<>>
               THEN Finish(t, "empty")
               ELSE /\ tasks' = [tasks EXCEPT ![t] =
                                    [IdleTask EXCEPT !.pc = "first", !.k = 1,
                                                     !.batch = Process(FetchedItems(t[1], now))]]
                    /\ round' = round
    /\ UNCHANGED <<storeVars, procVars, gateVars, httpVars, fetchVars, readVars, fires, faulty>>

\* f.Fetch() of runFetcher ends: res is what upstream made of it, countOk whether
\* the count query of the A-share gate succeeds; then Process
FetchReturn(t, res, countOk) ==
    /\ alive /\ tasks[t].pc = "fetch"
    /\ faulty = t[1] => res = "panic"
    /\ IF res = "panic" THEN PanicInFetch(t)
       ELSE /\ alive' = alive
            /\ IF t[1] = "ashare" /\ ~ AshareGate(shards, now, countOk)
               THEN Finish(t, "skip")
               ELSE IF res = "error" THEN Finish(t, "error")
               ELSE IF res = "empty" \/ Process(FetchedItems(t[1], now)) = <<>>
               THEN Finish(t, "empty")
               ELSE /\ tasks' = [tasks EXCEPT ![t] =
                                    [IdleTask EXCEPT !.pc = "first", !.k = 1,
                                                     !.batch = Process(FetchedItems(t[1], now))]]
                    /\ round' = round
    /\ UNCHANGED <<storeVars, procVars, gateVars, httpVars, fetchVars, readVars, fires, faulty>>

\* SaveBatch moves on from record k
NextRecord(t) ==
    IF tasks[t].k = Len(tasks[t].batch) THEN Finish(t, "saved")
    ELSE /\ tasks' = [tasks EXCEPT ![t].pc = "first", ![t].k = @ + 1, ![t].id = <<>>]
         /\ round' = round

\* SaveBatch, FirstOrCreate: SELECT ... WHERE url = ? LIMIT 1
SaveFirst(t, ok) ==
    /\ alive /\ tasks[t].pc = "first"
    /\ LET tbl == newsTable(Cur(t).Source)
           found == DbFirstByURL(shards, tbl, Cur(t).URL)
       IN  IF tbl = "" THEN NextRecord(t)
           ELSE IF ~ ok THEN Finish(t, "saveFault")
           ELSE /\ tasks' = [tasks EXCEPT
                                ![t].pc = IF found = {} THEN "create" ELSE "update",
                                ![t].id = IF found = {} THEN <<>>
                                          ELSE (CHOOSE r \in found : TRUE).ID]
                /\ round' = round
    /\ UNCHANGED <<storeVars, procVars, gateVars, httpVars, fetchVars, readVars, alive, fires, faulty>>

\* SaveBatch, FirstOrCreate: no row was found, INSERT
SaveCreate(t, ok) ==
    /\ alive /\ tasks[t].pc = "create"
    /\ LET tbl == newsTable(Cur(t).Source)
           n == NewsOf(Cur(t))
       IN  IF ~ ok THEN Finish(t, "saveFault") /\ shards' = shards
           ELSE IF ~ DbInsertAllowed(shards, tbl, n)
           THEN Finish(t, "saveConflict") /\ shards' = shards
           ELSE /\ shards' = DbInsert(shards, tbl, n, now)
                /\ tasks' = [tasks EXCEPT ![t].pc = "update", ![t].id = n.ID]
                /\ round' = round
    /\ UNCHANGED <<now, procVars, gateVars, httpVars, fetchVars, readVars, alive, fires, faulty>>

\* SaveBatch: Model(n).Updates(...), UPDATE ... WHERE id = n.ID
SaveUpdate(t, ok) ==
    /\ alive /\ tasks[t].pc = "update"
    /\ LET tbl == newsTable(Cur(t).Source)
       IN  IF ~ ok THEN Finish(t, "saveFault") /\ shards' = shards
           ELSE /\ shards' = DbUpdates(shards, tbl, tasks[t].id, NewsOf(Cur(t)), now)
                /\ NextRecord(t)
    /\ UNCHANGED <<now, procVars, gateVars, httpVars, fetchVars, readVars, alive, fires, faulty>>

\* the clock moves on
Advance ==
    /\ alive
    /\ \E s \in SchedStarts : s <= now /\ now < s + MaxClock * SchedStep
    /\ now' = now + SchedStep
    /\ UNCHANGED <<shards, procVars, gateVars, httpVars, fetchVars, readVars, schedVars>>

FetchResults == {"items", "empty", "error", "panic"}

StepAfterEarlierFetches(t) ==
    /\ \A u \in TaskIds : (u[1] # t[1] /\ u[1] = "baidu") => tasks[u].pc # "fetch"
    /\ \/ \E res \in FetchResults, countOk \in BOOLEAN : FetchReturn(t, res, countOk)
       \/ \E ok \in BOOLEAN : SaveFirst(t, ok)
       \/ \E ok \in BOOLEAN : SaveCreate(t, ok)
       \/ \E ok \in BOOLEAN : SaveUpdate(t, ok)

\* one step of the goroutine that runs runFetcher for task t
Step(t) ==
    \/ \E res \in FetchResults, countOk \in BOOLEAN : FetchReturn(t, res, countOk)
    \/ \E ok \in BOOLEAN : SaveFirst(t, ok)
    \/ \E ok \in BOOLEAN : SaveCreate(t, ok)
    \/ \E ok \in BOOLEAN : SaveUpdate(t, ok)

(***************************************************************************)
(* SpecRounds: RunOnce called again and again, one job's Fetch panicking   *)
(* on every call                                                           *)
(***************************************************************************)
InitRounds ==
    /\ shards = EmptyShards
    /\ now \in SchedStarts
    /\ lastRaw = <<>> /\ lastOut = None /\ lastErr = None
    /\ GateIdle
    /\ HttpIdle
    /\ FetchIdle
    /\ ReadIdle
    /\ tasks = [t \in TaskIds |-> IdleTask]
    /\ alive = TRUE
    /\ round = [calls |-> 0, open |-> FALSE, wg |-> 0]
    /\ fires = 0
    /\ faulty \in Jobs

NextRounds ==
    \/ RunOnceCall
    \/ RunOnceReturn
    \/ \E t \in TaskIds : Step(t)
    \/ Advance

SpecRounds == InitRounds /\ [][NextRounds]_vars

(***************************************************************************)
(* Spec: Scheduler.Start, the cron entries run and RunOnce is called once  *)
(***************************************************************************)
Init ==
    /\ shards = EmptyShards
    /\ now \in SchedStarts
    /\ lastRaw = <<>> /\ lastOut = None /\ lastErr = None
    /\ GateIdle
    /\ HttpIdle
    /\ FetchIdle
    /\ ReadIdle
    /\ tasks = [t \in TaskIds |->
                   IF t[2] = "once" THEN [IdleTask EXCEPT !.pc = "fetch"] ELSE IdleTask]
    /\ alive = TRUE
    /\ round = [calls |-> 1, open |-> TRUE, wg |-> Cardinality(Jobs)]
    /\ fires = 0
    /\ faulty = None

Next ==
    \/ \E j \in Jobs : Fire(j)
    \/ RunOnceReturn
    \/ \E t \in TaskIds : Step(t)
    \/ Advance

Spec == Init /\ [][Next]_vars

(***************************************************************************)
(* FairRounds: RunOnce called again and again at one instant, under the    *)
(* fairness the Go runtime gives: no goroutine that can run is starved,    *)
(* and Fetch and each statement of SaveBatch return or panic               *)
(***************************************************************************)
OnceTasks == Jobs \X {"once"}

InitFair ==
    /\ shards = EmptyShards
    /\ now = ClosedEvening
    /\ lastRaw = <<>> /\ lastOut = None /\ lastErr = None
    /\ GateIdle
    /\ HttpIdle
    /\ FetchIdle
    /\ ReadIdle
    /\ SchedIdle

NextFair ==
    \/ RunOnceCall
    \/ RunOnceReturn
    \/ \E t \in OnceTasks : Step(t)

FairRounds ==
    /\ InitFair /\ [][NextFair]_vars
    /\ WF_vars(RunOnceReturn)
    /\ \A t \in OnceTasks : WF_vars(Step(t))

(***************************************************************************)
(* Claims about the scheduler                                              *)
(***************************************************************************)
\* the goroutines of the RunOnce in progress that have not called wg.Done
Outstanding == Cardinality({j \in Jobs : tasks[<<j, "once">>].pc # "idle"})

\* the row SaveBatch leaves for record it: its link, id and mutable fields
Written(sh, it) ==
    \E r \in sh[newsTable(it.Source)] :
        /\ r.URL = it.URL /\ r.ID = it.ID
        /\ r.Title = NewsOf(it).Title /\ r.Description = NewsOf(it).Description
        /\ r.HotScore = it.HotScore /\ r.PublishedAt = it.PublishedAt
        /\ r.PublishedDate = East8Date(it.PublishedAt)
        /\ r.ExtraData = it.RawData

\* C1: with one job's Fetch panicking on every call, over repeated RunOnce
\* calls: the process stays alive; a panic ends only the cycle it happens in
\* and changes no other cycle and no shard; every cycle of another job that got
\* a non-empty batch from Fetch ends with the whole batch written, unless the
\* database refused one of its statements; and the WaitGroup counter of RunOnce
\* is the number of cycles still running, so RunOnce returns when they have ended.
C1_PanicIsolated ==
    /\ [](alive /\ (round.open => round.wg = Outstanding))
    /\ [][\A t \in TaskIds :
             /\ (tasks[t].pc = "fetch" /\ tasks'[t].out = "panic") =>
                    /\ alive'
                    /\ shards' = shards
                    /\ \A u \in TaskIds \ {t} : tasks'[u] = tasks[u]
             /\ (tasks[t].batch # <<>> /\ tasks'[t].pc = "idle") =>
                    \/ /\ tasks'[t].out = "saved"
                       /\ \A i \in 1..Len(tasks[t].batch) : Written(shards', tasks[t].batch[i])
                    \/ tasks'[t].out = "saveFault"]_vars

\* C1 witness: the second RunOnce has returned; in it the A-share cycle
\* panicked, as in every round, and the baidu cycle saved its batch again,
\* updating the row that the first round created
C1_Witness ==
    /\ alive /\ faulty = "ashare"
    /\ round.calls = 2 /\ ~ round.open
    /\ tasks[<<"ashare", "once">>].out = "panic"
    /\ tasks[<<"baidu", "once">>].out = "saved"
    /\ shards["news_ashare"] = {}
    /\ \E r \in shards["news_baidu"] : r.CreatedAt < r.UpdatedAt

\* C3: when two SaveBatch calls that write the same link into the same shard
\* overlap, no call returns an error that the database was not made to raise,
\* the shard holds one row per link, and the mutable fields of a row are all
\* those of one caller's record.
C3_ConcurrentUpsertNeverFails ==
    /\ \A t \in TaskIds : tasks[t].out # "saveConflict"
    /\ \A tbl \in Tables : \A r1, r2 \in shards[tbl] : r1.URL = r2.URL => r1 = r2
    /\ \A j \in Jobs : \A r \in shards[newsTable(j)] :
           r.UpdatedAt > r.CreatedAt =>
               \E it \in {Process(FetchedItems(j, r.PublishedAt))[1]} : Written(shards, it)

\* the gate of an A-share cycle decides at this step, with the market closed
GateStep(t) ==
    /\ t[1] = "ashare"
    /\ tasks[t].pc = "fetch" /\ tasks'[t].pc # "fetch"
    /\ tasks'[t].out # "panic"
    /\ ~ isAshareMarketOpen(Instant(now))

\* an A-share record dated today, fetched while the market was closed, is stored
BackfilledToday ==
    \E r \in shards["news_ashare"] :
        /\ r.PublishedDate = East8Date(now)
        /\ ~ isAshareMarketOpen(Instant(r.PublishedAt))

NoRecordToday == ~ \E r \in shards["news_ashare"] : DateWhere(r, East8Date(now))

C10_EveryCycleReturnsToIdle ==
    /\ \A t \in OnceTasks : (tasks[t].pc # "idle") ~> (tasks[t].pc = "idle")
    /\ round.open ~> ~ round.open
    /\ [](alive /\ \A t \in TaskIds : tasks[t].pc \in {"idle", "fetch", "first", "create", "update"})
    /\ []((~ round.open /\ round.calls < MaxRounds) => ENABLED RunOnceCall)

\* C10 witness: the second RunOnce has returned; its baidu cycle ended in a
\* panic and its A-share cycle in a gate skip, after a first round in which the
\* A-share cycle wrote its batch
C10_Witness ==
    /\ round.calls = 2 /\ ~ round.open
    /\ tasks[<<"baidu", "once">>].out = "panic"
    /\ tasks[<<"ashare", "once">>].out = "skip"
    /\ shards["news_ashare"] # {}


\* the outcomes of runFetcher that it logs as an error of the source
ErrorOutcomes == {"error", "saveFault", "saveConflict"}

\* C11: when a cycle of one source ends in an error (Fetch returned an error, or
\* SaveBatch failed), that step changes no other cycle and no shard and leaves
\* the process alive; every cycle that got a non-empty batch from Fetch ends
\* with the whole batch written, unless the database refused one of its own
\* statements or a row of its own source already held the link; and cron can
\* still fire every job whose tick is not running, the failed one included.
C11_ErrorStaysInItsSource ==
    /\ [](alive /\ \A j \in Jobs :
                      (fires < MaxFires /\ tasks[<<j, "tick">>].pc = "idle") => ENABLED Fire(j))
    /\ [][\A t \in TaskIds :
             /\ (tasks[t].pc # "idle" /\ tasks'[t].pc = "idle"
                   /\ tasks'[t].out \in ErrorOutcomes) =>
                    /\ alive'
                    /\ shards' = shards
                    /\ \A u \in TaskIds \ {t} : tasks'[u] = tasks[u]
             /\ (tasks[t].batch # <<>> /\ tasks'[t].pc = "idle") =>
                    \/ /\ tasks'[t].out = "saved"
                       /\ \A i \in 1..Len(tasks[t].batch) : Written(shards', tasks[t].batch[i])
                    \/ tasks'[t].out = "saveFault"
                    \/ /\ tasks'[t].out = "saveConflict"
                       /\ \E r \in shards[newsTable(t[1])] :
                              r.Source = t[1] /\ r.URL = Cur(t).URL]_vars

\* C11 witness: the baidu cycle of RunOnce ended in a Fetch error and the baidu
\* tick in a SaveBatch failure, with nothing of baidu stored, while the A-share
\* cycle of RunOnce wrote its record
C11_Witness ==
    /\ alive
    /\ tasks[<<"baidu", "once">>].out = "error"
    /\ tasks[<<"baidu", "tick">>].out = "saveFault"
    /\ shards["news_baidu"] = {}
    /\ tasks[<<"ashare", "once">>].out = "saved"
    /\ shards["news_ashare"] # {}


(***************************************************************************)
(* Claims about sequences of SaveBatch calls                               *)
(***************************************************************************)
\* C12: in every shard no two rows share a link, no two rows share an id, and
\* the id of every row is the fingerprint (hashURL) of the row's link.
C12_LinkAndIdUniqueIdIsFingerprint ==
    \A tbl \in Tables :
        /\ \A r1, r2 \in shards[tbl] : (r1.URL = r2.URL \/ r1.ID = r2.ID) => r1 = r2
        /\ \A r \in shards[tbl] : r.ID = hashURL(r.URL)

\* C12 witness: after two SaveBatch calls the baidu shard holds a row for each
\* link, one of them written by both calls
C12_Witness ==
    /\ now > StartInstant + ClockStep
    /\ Cardinality(shards["news_baidu"]) = NumLinks
    /\ \E r \in shards["news_baidu"] : r.CreatedAt < r.UpdatedAt


(***************************************************************************)
(* SpecBatch: one cycle of runFetcher against a store that is empty or     *)
(* already holds rows, with batches long enough to have a record before    *)
(* and a record after any one record                                       *)
(***************************************************************************)
NumBatchLinks == 3
MaxSaveBatch == 3

\* what Fetch may return at instant t: records of baidu links and a record of
\* the channel without a table
BatchItems(t) ==
    {RawItem(<<"url", i>>, "baidu", t) : i \in 1..NumBatchLinks}
        \cup {RawItem(OtherLink, "weibo", t)}

\* the store after an earlier cycle of baidu and one of gold
BatchSeeds ==
    {EmptyShards,
     SaveBatch(EmptyShards,
               Process(<<RawItem(<<"url", 1>>, "baidu", ClockStep),
                         RawItem(<<"gold", 1>>, "gold", ClockStep)>>),
               ClockStep, NoFault).sh}

InitBatch ==
    /\ shards \in BatchSeeds
    /\ now = StartInstant
    /\ lastRaw = <<>>
    /\ lastOut = None
    /\ lastErr = None
    /\ GateIdle
    /\ HttpIdle
    /\ FetchIdle
    /\ ReadIdle
    /\ SchedIdle

\* the cycle: Process, then SaveBatch
BatchCall(raw, fault) ==
    /\ now = StartInstant
    /\ SeqCycle(raw, fault)

NextBatch ==
    \E raw \in SeqUpTo(BatchItems(now), MaxSaveBatch) :
        \E fault \in FaultsFor(Process(raw)) : BatchCall(raw, fault)

SpecBatch == InitBatch /\ [][NextBatch]_vars

\* the step is a SaveBatch call of the batch lastOut' in which the database
\* refused the statement fault
SavedWith(fault) ==
    /\ now' # now
    /\ shards' = SaveBatch(shards, lastOut', now, fault).sh
    /\ lastErr' = SaveBatch(shards, lastOut', now, fault).err

Configured(it) == newsTable(it.Source) # ""

\* the sequence s without its i-th element
Without(s, i) == [j \in 1..(Len(s) - 1) |-> IF j < i THEN s[j] ELSE s[j + 1]]

\* the rows of any shard that carry the link of record it
RowsOf(sh, it) == {r \in UNION {sh[tbl] : tbl \in Tables} : r.URL = it.URL}

\* C13: for every record of a batch whose channel has no table: no shard holds
\* a row for it afterwards; a refusal of the database aimed at it raises no
\* error, as no statement is issued for it; when the call returns no error,
\* every record of a configured channel, before or after it, is written; and
\* with no refusal the shards are those the batch without it would leave.
C13_UnconfiguredRecordSkipped ==
    [][now' # now =>
          \A i \in 1..Len(lastOut') :
              ~ Configured(lastOut'[i]) =>
                  /\ RowsOf(shards', lastOut'[i]) = {}
                  /\ \A op \in {"first", "update"} :
                         SavedWith([at |-> i, op |-> op]) => lastErr' = FALSE
                  /\ lastErr' = FALSE =>
                         \A j \in 1..Len(lastOut') :
                             Configured(lastOut'[j]) => Written(shards', lastOut'[j])
                  /\ SavedWith(NoFault) =>
                         /\ lastErr' = FALSE
                         /\ shards' = SaveBatch(shards, Without(lastOut', i), now, NoFault).sh]_vars

\* C13 witness: a batch of three records, the second of a channel without a
\* table, was saved without error: the first and the third are stored
C13_Witness ==
    /\ now > StartInstant /\ lastErr = FALSE
    /\ Len(lastOut) = 3
    /\ ~ Configured(lastOut[2])
    /\ Written(shards, lastOut[1]) /\ Written(shards, lastOut[3])
    /\ RowsOf(shards, lastOut[2]) = {}


\* C20: when the database refuses a statement of SaveBatch at the k-th record
\* of a batch (the lookup or insert of FirstOrCreate, or the update), SaveBatch
\* returns an error; every record before the k-th is stored as written; the
\* rows of every record after the k-th are what they were before the call; and
\* a shard that no record of the batch belongs to is unchanged.
C20_FailureKeepsEarlierRecordsStopsLater ==
    [][now' # now =>
          \A k \in 1..Len(lastOut') : \A op \in {"first", "update"} :
              (Configured(lastOut'[k]) /\ SavedWith([at |-> k, op |-> op])) =>
                  /\ lastErr' = TRUE
                  /\ \A j \in 1..(k - 1) :
                         Configured(lastOut'[j]) => Written(shards', lastOut'[j])
                  /\ \A j \in (k + 1)..Len(lastOut') :
                         RowsOf(shards', lastOut'[j]) = RowsOf(shards, lastOut'[j])
                  /\ \A tbl \in Tables :
                         (\A j \in 1..Len(lastOut') : newsTable(lastOut'[j].Source) # tbl) =>
                             shards'[tbl] = shards[tbl]]_vars

\* C20 witness: SaveBatch of three baidu records into the seeded store returned
\* an error at the second: the first is stored as written, nothing is stored
\* for the second and the third, and the gold shard still holds its row
C20_Witness ==
    /\ now > StartInstant /\ lastErr = TRUE
    /\ Len(lastOut) = 3
    /\ \A j \in 1..3 : Configured(lastOut[j])
    /\ Written(shards, lastOut[1])
    /\ RowsOf(shards, lastOut[2]) = {} /\ RowsOf(shards, lastOut[3]) = {}
    /\ shards["news_gold"] # {}


(***************************************************************************)
(* SpecBoot: main from NewStore to the first request, the statements of    *)
(* NewStore one by one                                                     *)
(***************************************************************************)
\* NewStore is entered: i is the loop counter, attempts the calls of gorm.Open,
\* failures those that returned an error, sleeps the calls of time.Sleep, cause
\* the statement whose error NewStore returns
BootStart ==
    [state |-> "open", dbOk |-> FALSE, pingOk |-> FALSE, i |-> 0, attempts |-> 0,
     failures |-> 0, sleeps |-> 0, cause |-> None, serving |-> FALSE]

InitBoot ==
    /\ shards = EmptyShards
    /\ now = StartInstant
    /\ lastRaw = <<>> /\ lastOut = None /\ lastErr = None
    /\ GateIdle
    /\ HttpIdle
    /\ FetchIdle
    /\ boot = BootStart
    /\ cache = {}
    /\ query \in Queries
    /\ commits = <<>>
    /\ lastOp = NoOp
    /\ SchedIdle

GormOpenSleepsAfterLast(ok) ==
    /\ boot.state = "open" /\ boot.i < dbConnectRetries
    /\ boot' = IF ok
               THEN [boot EXCEPT !.state = "migrate", !.attempts = @ + 1, !.dbOk = TRUE]
               ELSE [boot EXCEPT !.state = "sleep", !.attempts = @ + 1, !.failures = @ + 1]
    /\ UNCHANGED <<storeVars, procVars, gateVars, httpVars, fetchVars, cache, query, commits, lastOp, schedVars>>

\* one pass of the loop of NewStore: gorm.Open, break when it succeeds; when it
\* fails, sleep unless this was the last attempt, in which case the loop ends
\* and NewStore returns the error
GormOpen(ok) ==
    /\ boot.state = "open" /\ boot.i < dbConnectRetries
    /\ boot' = IF ok
               THEN [boot EXCEPT !.state = "migrate", !.attempts = @ + 1, !.dbOk = TRUE]
               ELSE IF boot.i < dbConnectRetries - 1
               THEN [boot EXCEPT !.state = "sleep", !.attempts = @ + 1, !.failures = @ + 1]
               ELSE [boot EXCEPT !.state = "failed", !.attempts = @ + 1, !.failures = @ + 1,
                                 !.i = @ + 1, !.cause = "connect"]
    /\ UNCHANGED <<storeVars, procVars, gateVars, httpVars, fetchVars, cache, query, commits, lastOp, schedVars>>

\* time.Sleep(dbConnectDelay) returns, i++ and the loop condition
ConnectDelay ==
    /\ boot.state = "sleep"
    /\ boot' = IF boot.i + 1 < dbConnectRetries
               THEN [boot EXCEPT !.state = "open", !.sleeps = @ + 1, !.i = @ + 1]
               ELSE [boot EXCEPT !.state = "failed", !.sleeps = @ + 1, !.i = @ + 1,
                                 !.cause = "connect"]
    /\ UNCHANGED <<storeVars, procVars, gateVars, httpVars, fetchVars, cache, query, commits, lastOp, schedVars>>

\* db.AutoMigrate(...)
AutoMigrate(ok) ==
    /\ boot.state = "migrate"
    /\ boot' = IF ok THEN [boot EXCEPT !.state = "create"]
               ELSE [boot EXCEPT !.state = "failed", !.cause = "migrate"]
    /\ UNCHANGED <<storeVars, procVars, gateVars, httpVars, fetchVars, cache, query, commits, lastOp, schedVars>>

\* CREATE TABLE IF NOT EXISTS for every shard, in parallel; createErr after wg.Wait
CreateShardTables(ok) ==
    /\ boot.state = "create"
    /\ boot' = IF ok THEN [boot EXCEPT !.state = "ping"]
               ELSE [boot EXCEPT !.state = "failed", !.cause = "create"]
    /\ UNCHANGED <<storeVars, procVars, gateVars, httpVars, fetchVars, cache, query, commits, lastOp, schedVars>>

\* rdb.Ping: a failure is logged as a warning; NewStore returns the store
RedisPing(ok) ==
    /\ boot.state = "ping"
    /\ boot' = [boot EXCEPT !.state = "ready", !.pingOk = ok]
    /\ UNCHANGED <<storeVars, procVars, gateVars, httpVars, fetchVars, cache, query, commits, lastOp, schedVars>>

\* main: log.Fatalf("init store failed") ends the process
MainFatal ==
    /\ boot.state = "failed" /\ alive
    /\ boot' = [boot EXCEPT !.state = "fatal"]
    /\ alive' = FALSE
    /\ UNCHANGED <<storeVars, procVars, gateVars, httpVars, fetchVars, cache, query, commits, lastOp, tasks, round,
                   fires, faulty>>

\* main: scheduler.New and s.Start(), which starts cron and go s.RunOnce()
MainStart ==
    /\ boot.state = "ready" /\ alive /\ round.calls = 0
    /\ tasks' = [t \in TaskIds |->
                    IF t[2] = "once" THEN [IdleTask EXCEPT !.pc = "fetch"] ELSE tasks[t]]
    /\ round' = [calls |-> 1, open |-> TRUE, wg |-> Cardinality(Jobs)]
    /\ UNCHANGED <<storeVars, procVars, gateVars, httpVars, fetchVars, readVars, alive, fires, faulty>>

\* main: the routes are registered and r.Run listens
MainServe ==
    /\ boot.state = "ready" /\ alive /\ round.calls = 1 /\ ~ boot.serving
    /\ boot' = [boot EXCEPT !.serving = TRUE]
    /\ UNCHANGED <<storeVars, procVars, gateVars, httpVars, fetchVars, cache, query, commits, lastOp, schedVars>>

\* the API answers GET /api/v1/news
ServeRequest ==
    /\ boot.serving /\ alive /\ lastOp = NoOp
    /\ ListNews(TRUE, TRUE, {})

NextBoot ==
    \/ \E ok \in BOOLEAN : GormOpen(ok)
    \/ ConnectDelay
    \/ \E ok \in BOOLEAN : AutoMigrate(ok)
    \/ \E ok \in BOOLEAN : CreateShardTables(ok)
    \/ \E ok \in BOOLEAN : RedisPing(ok)
    \/ MainFatal
    \/ MainStart
    \/ MainServe
    \/ ServeRequest

SpecBoot == InitBoot /\ [][NextBoot]_vars

\* NewStore has returned
Returned == boot.state \in {"failed", "fatal", "ready"}

\* the loop of NewStore behaves as claimed: at most dbConnectRetries attempts,
\* none after one that succeeded, a sleep after every failed attempt but the
\* last possible one
RetryLoopAsClaimed ==
    /\ boot.attempts <= dbConnectRetries
    /\ boot.dbOk => boot.attempts = boot.failures + 1
    /\ ~ boot.dbOk => boot.attempts = boot.failures
    /\ boot.state \notin {"open", "sleep"} =>
           boot.sleeps = IF boot.dbOk THEN boot.failures ELSE dbConnectRetries - 1
    /\ boot.state = "open" => boot.sleeps = boot.attempts
    /\ boot.state = "sleep" => boot.sleeps = boot.attempts - 1

\* on the error of NewStore the process ends with no scheduler started and no
\* request served; and nothing is started or served before NewStore returned a store
FatalBeforeAnyService ==
    /\ boot.state = "fatal" <=> ~ alive
    /\ boot.state # "ready" =>
           /\ round.calls = 0 /\ \A t \in TaskIds : tasks[t].pc = "idle"
           /\ ~ boot.serving /\ lastOp = NoOp

\* C14 as claimed: the retry loop, the exit on error, and NewStore returns an
\* error exactly when all dbConnectRetries attempts have failed.
C14_ErrorExactlyWhenAllAttemptsFail ==
    /\ RetryLoopAsClaimed
    /\ FatalBeforeAnyService
    /\ Returned => (boot.state # "ready" <=> boot.failures = dbConnectRetries)

\* C14 amended: the retry loop, the exit on error, and NewStore returns an error
\* when all dbConnectRetries attempts have failed and otherwise only when,
\* connected, AutoMigrate or the creation of a shard table fails.
C14_ErrorWhenConnectOrMigrationFails ==
    /\ RetryLoopAsClaimed
    /\ FatalBeforeAnyService
    /\ Returned =>
           /\ boot.failures = dbConnectRetries => boot.state # "ready"
           /\ boot.state # "ready" =>
                  \/ boot.failures = dbConnectRetries /\ boot.cause = "connect"
                  \/ boot.dbOk /\ boot.cause \in {"migrate", "create"}

\* C14 witness: all attempts failed, with a sleep after each but the last, and
\* the process has ended with no scheduler and no request
C14_Witness ==
    /\ boot.state = "fatal" /\ ~ alive
    /\ boot.attempts = dbConnectRetries /\ boot.sleeps = dbConnectRetries - 1
    /\ round.calls = 0 /\ lastOp = NoOp


(***************************************************************************)
(* SpecAuth: one request through the router main builds, for every         *)
(* configuration of the Basic Auth user and password                       *)
(***************************************************************************)
MaxCred == 1

\* the bytes credentials are made of; the colon separates user and password in
\* the Authorization header
AuthChars == {"a", ":"}
AuthTexts == SeqUpTo(AuthChars, MaxCred)

\* URL paths as their segments: /health, /health/, / and /api/v1/news
HealthPath == <<"health">>
Paths == {HealthPath, <<"health", "">>, <<>>, <<"api", "v1", "news">>}

\* the Authorization header: absent (<<>>), or a scheme and the decoded payload
Headers ==
    {<<>>} \cup ({"Basic", "basic", "Bearer"} \X SeqUpTo(AuthChars, 2 * MaxCred + 1))

Requests == [path : Paths, header : Headers]

\* the index of the first colon of s, 0 when there is none
RECURSIVE IndexColon(_, _)
IndexColon(s, i) ==
    IF i > Len(s) THEN 0
    ELSE IF s[i] = ":" THEN i
    ELSE IndexColon(s, i + 1)

\* http.Request.BasicAuth: the scheme is compared without regard to case, the
\* payload is cut at its first colon
BasicAuth(header) ==
    IF header = <<>> \/ header[1] \notin {"Basic", "basic"} \/ IndexColon(header[2], 1) = 0
    THEN [ok |-> FALSE, u |-> <<>>, p |-> <<>>]
    ELSE [ok |-> TRUE,
          u |-> SubSeq(header[2], 1, IndexColon(header[2], 1) - 1),
          p |-> SubSeq(header[2], IndexColon(header[2], 1) + 1, Len(header[2]))]

\* the route handler ran (c.Next) and answered
Handled == [status |-> 200, handled |-> TRUE, challenge |-> FALSE]

\* c.AbortWithStatus(401) with the WWW-Authenticate header: no handler runs
Unauthorized == [status |-> 401, handled |-> FALSE, challenge |-> TRUE]

basicAuthMiddlewareHealthPrefix(user, pass, req) ==
    IF Len(req.path) >= 1 /\ req.path[1] = "health" THEN Handled
    ELSE LET got == BasicAuth(req.header)
         IN  IF ~ got.ok \/ got.u # user \/ got.p # pass THEN Unauthorized ELSE Handled

\* the handler basicAuthMiddleware(user, pass) returns, applied to a request
basicAuthMiddleware(user, pass, req) ==
    IF req.path = HealthPath THEN Handled
    ELSE LET got == BasicAuth(req.header)
         IN  IF ~ got.ok \/ got.u # user \/ got.p # pass THEN Unauthorized ELSE Handled

InitAuth ==
    /\ shards = EmptyShards
    /\ now = StartInstant
    /\ lastRaw = <<>> /\ lastOut = None /\ lastErr = None
    /\ GateIdle
    /\ cfg \in [BasicAuthUser : AuthTexts, BasicAuthPass : AuthTexts]
    /\ request = NoRequest
    /\ response = NoResponse
    /\ FetchIdle
    /\ ReadIdle
    /\ SchedIdle

\* the router serves req: the middleware is installed only when both values
\* are set
ServeHTTP(req) ==
    /\ request = NoRequest
    /\ request' = req
    /\ response' = IF cfg.BasicAuthUser # <<>> /\ cfg.BasicAuthPass # <<>>
                   THEN basicAuthMiddleware(cfg.BasicAuthUser, cfg.BasicAuthPass, req)
                   ELSE Handled
    /\ UNCHANGED <<storeVars, procVars, gateVars, cfg, fetchVars, readVars, schedVars>>

NextAuth == \E req \in Requests : ServeHTTP(req)

SpecAuth == InitAuth /\ [][NextAuth]_vars

\* the request carries the configured credentials: a Basic header whose payload
\* is user, colon, password
CarriesCredentials ==
    /\ request.header # <<>>
    /\ request.header[1] \in {"Basic", "basic"}
    /\ request.header[2] = cfg.BasicAuthUser \o <<":">> \o cfg.BasicAuthPass

DateSeedBatch ==
    <<SeedRaw(1, "baidu", 1, StartInstant - 2 * MinutesPerDay),
      SeedRaw(2, "baidu", 1, StartInstant - MinutesPerDay),
      SeedRaw(3, "baidu", 1, StartInstant),
      SeedRaw(4, "gold", 1, StartInstant - MinutesPerDay),
      SeedRaw(5, "ashare", 1, StartInstant - 8 * 60),
      SeedRaw(6, "github", 1, StartInstant - 3 * MinutesPerDay)>>

\* the rows of the tables T as older versions stored them: published_date empty
LegacyIn(sh, T) ==
    [tbl \in Tables |->
        IF tbl \in T THEN {[r EXCEPT !.PublishedDate = NoDate] : r \in sh[tbl]}
        ELSE sh[tbl]]

DateSeeds ==
    LET filled == SaveBatch(EmptyShards, Process(DateSeedBatch), StartInstant, NoFault).sh
    IN  {EmptyShards, filled, LegacyIn(filled, Tables), LegacyIn(filled, {"news_ashare"})}

DateQueries ==
    [channel : {"", "baidu", "gold", "ashare", "weibo"}, sort : {""},
     limit : 1..MaxLimit, date : {NoDate}]

InitDates ==
    /\ shards \in DateSeeds
    /\ now = StartInstant
    /\ lastRaw = <<>> /\ lastOut = None /\ lastErr = None
    /\ GateIdle
    /\ HttpIdle
    /\ FetchIdle
    /\ boot = [state |-> "ready", dbOk |-> TRUE, pingOk |-> TRUE]
    /\ cache = {}
    /\ query \in DateQueries
    /\ commits = <<>>
    /\ lastOp = NoOp
    /\ SchedIdle

NextDates ==
    \E getOk, setOk \in BOOLEAN, dbFail \in {{}, {"news_gold"}} :
        ListPublishedDates(getOk, setOk, dbFail)

SpecDates == InitDates /\ [][NextDates]_vars

\* the shards the claim names for a channel
ChannelShards(channel) ==
    IF channel = "" THEN Tables
    ELSE IF channel = "gold" THEN {"news_gold", "news_ashare"}
    ELSE {newsTable(channel)} \ {""}

\* the calendar days on which the shards of the channel hold a record
DaysHeld(channel) ==
    {IF r.PublishedDate # NoDate THEN r.PublishedDate ELSE East8Date(r.PublishedAt) :
        r \in UNION {shards[tbl] : tbl \in ChannelShards(channel)}}

\* C15: ListPublishedDates on a cache miss with every shard query succeeding
\* returns days on which the shards of the channel hold a record, min(limit,
\* number of such days) of them, in strictly descending order, and none of the
\* days left out is more recent than one returned.
C15_DatesAreMostRecentDaysDescending ==
    (lastOp.op = "ListPublishedDates" /\ ~ lastOp.hit /\ lastOp.dbFail = {}) =>
        LET list == lastOp.list
            held == DaysHeld(query.channel)
        IN  /\ ~ lastOp.err
            /\ Len(list) = Min(query.limit, Cardinality(held))
            /\ \A i \in 1..Len(list) : list[i] \in held
            /\ \A i, j \in 1..Len(list) : i < j => list[i] > list[j]
            /\ \A d \in held : \A i \in 1..Len(list) :
                   d > list[i] => \E j \in 1..Len(list) : list[j] = d

\* C15 witness: the composite channel, limit 2, over legacy A-share rows: the
\* first day returned is that of the A-share row, derived from its publishedAt
\* in UTC+8, the second that of the gold row
C15_Witness ==
    /\ lastOp.op = "ListPublishedDates" /\ ~ lastOp.hit /\ lastOp.dbFail = {}
    /\ query.channel = "gold" /\ query.limit = 2
    /\ \A r \in shards["news_ashare"] : r.PublishedDate = NoDate
    /\ shards["news_ashare"] # {}
    /\ lastOp.list = <<East8Date(StartInstant), East8Date(StartInstant) - 1>>
    /\ East8Date(StartInstant) # (StartInstant - 8 * 60) \div MinutesPerDay


(***************************************************************************)
(* SpecTrunc: truncateRunes applied to every short text and limit          *)
(***************************************************************************)
MaxText == 3

\* a letter, a space, a CJK character, a byte that is not valid UTF-8
TextUnits == {"a", "sp", "zh", "bad"}

\* truncateRunes has not returned
Pending == <<"pending">>

TruncInputs == [s : SeqUpTo(TextUnits, MaxText), limit : (0 - 1)..MaxText]

InitTrunc ==
    /\ shards = EmptyShards
    /\ now = StartInstant
    /\ lastRaw \in TruncInputs
    /\ lastOut = Pending
    /\ lastErr = None
    /\ GateIdle
    /\ HttpIdle
    /\ FetchIdle
    /\ ReadIdle
    /\ SchedIdle

\* out := truncateRunes(s, limit)
CallTruncateRunes ==
    /\ lastOut = Pending
    /\ lastOut' = truncateRunes(lastRaw.s, lastRaw.limit)
    /\ UNCHANGED <<storeVars, lastRaw, lastErr, gateVars, httpVars, fetchVars, readVars,
                   schedVars>>

NextTrunc == CallTruncateRunes

SpecTrunc == InitTrunc /\ [][NextTrunc]_vars

\* the characters of a text as Go counts them: one per rune, an invalid byte
\* counting as the replacement character
CharsOf(t) == [i \in 1..Len(t) |-> IF t[i] = "bad" THEN "fffd" ELSE t[i]]

\* C17: truncateRunes(s, limit) is empty when limit <= 0 or the trimmed s is
\* empty; it is the trimmed s itself when that has at most limit characters;
\* otherwise it is the first limit characters of the trimmed s followed by one
\* ellipsis, limit + 1 characters in all.
C17_TruncateRunesAsDescribed ==
    lastOut # Pending =>
        LET t == TrimSpace(lastRaw.s)
            limit == lastRaw.limit
        IN  /\ (limit <= 0 \/ t = <<>>) => lastOut = <<>>
            /\ (limit > 0 /\ t # <<>> /\ Len(CharsOf(t)) <= limit) => lastOut = t
            /\ (limit > 0 /\ Len(CharsOf(t)) > limit) =>
                   /\ lastOut = SubSeq(CharsOf(t), 1, limit) \o <<"ell">>
                   /\ Len(CharsOf(lastOut)) = limit + 1

\* C17 witness: a text of three characters, cut to its first two characters and
\* the ellipsis
C17_Witness ==
    /\ lastOut # Pending
    /\ lastRaw.s = <<"zh", "a", "zh">> /\ lastRaw.limit = 2
    /\ lastOut = <<"zh", "a", "ell">>


(***************************************************************************)
(* SpecFetch: one call of AShareIndexFetcher.Fetch, at instants of every   *)
(* day of the week, with and without HasTodayData, against a store with    *)
(* and without A-share rows of today                                       *)
(***************************************************************************)
\* wall-clock times of UTC+8, in minutes: before the open, in the morning
\* session, in the lunch break, in the afternoon session, after the close
FetchClockTimes == {4 * 60, 10 * 60, 12 * 60, 14 * 60, 15 * 60 + 30, 23 * 60 + 30}

\* those times on each day of a week, as instants
FetchInstants ==
    {MinutesPerWeek + d * MinutesPerDay + m - East8Offset : d \in 0..6, m \in FetchClockTimes}

\* the A-share shard: empty, holding a record of instant t, or one of the day before
FetchSeeds(t) ==
    {EmptyShards} \cup
    {SaveBatch(EmptyShards, Process(<<RawItem(<<"quote", u>>, "ashare", u)>>), u, NoFault).sh :
        u \in {t, t - MinutesPerDay}}

InitFetch ==
    /\ now \in FetchInstants
    /\ shards \in FetchSeeds(now)
    /\ lastRaw = <<>> /\ lastOut = None /\ lastErr = None
    /\ GateIdle
    /\ HttpIdle
    /\ fetcher \in [HasTodayData : BOOLEAN]
    /\ fetched = NoFetch
    /\ ReadIdle
    /\ SchedIdle

\* whether Fetch calls a.HasTodayData(now), and what it then returns
HasTodayDataCall(f, sh, t, countOk) ==
    IF isAshareMarketOpen(Instant(t)) \/ ~ f.HasTodayData \/ ~ isAshareTradingWeekday(Instant(t))
    THEN "uncalled"
    ELSE IF HasTodayData(sh, t, countOk) THEN "yes" ELSE "no"

FetchAttemptsWithoutCheck(f, sh, t, countOk) ==
    IF isAshareMarketOpen(Instant(t)) THEN TRUE
    ELSE IF ~ f.HasTodayData THEN isAshareTradingWeekday(Instant(t))
    ELSE AshareGate(sh, t, countOk)

\* the head of Fetch of the fetcher f: TRUE when it goes on to the upstream
\* requests
FetchAttempts(f, sh, t, countOk) ==
    IF isAshareMarketOpen(Instant(t)) THEN TRUE
    ELSE IF ~ f.HasTodayData THEN FALSE
    ELSE AshareGate(sh, t, countOk)

\* a.Fetch(): upOk is whether upstream answers the requests for the indices
AshareFetch(countOk, upOk) ==
    /\ ~ fetched.called
    /\ fetched' = [called |-> TRUE,
                   has |-> HasTodayDataCall(fetcher, shards, now, countOk),
                   upstream |-> FetchAttempts(fetcher, shards, now, countOk),
                   items |-> IF FetchAttempts(fetcher, shards, now, countOk) /\ upOk
                             THEN Len(FetchedItems("ashare", now)) ELSE 0,
                   err |-> FALSE]
    /\ UNCHANGED <<storeVars, procVars, gateVars, httpVars, fetcher, readVars, schedVars>>

NextFetch == \E countOk, upOk \in BOOLEAN : AshareFetch(countOk, upOk)

SpecFetch == InitFetch /\ [][NextFetch]_vars

\* Monday to Friday on the UTC+8 calendar (instants count from a Monday)
MondayToFriday(t) == ((t + East8Offset) \div MinutesPerDay) % 7 <= 4

\* C18: Fetch goes to upstream exactly when the market is open, or it is closed,
\* HasTodayData is injected, the UTC+8 day is Monday to Friday and
\* HasTodayData(now) returned false; otherwise it returns no item and no error.
C18_GateDecisionTable ==
    fetched.called =>
        /\ fetched.upstream <=>
               \/ isAshareMarketOpen(Instant(now))
               \/ /\ ~ isAshareMarketOpen(Instant(now))
                  /\ fetcher.HasTodayData
                  /\ MondayToFriday(now)
                  /\ fetched.has = "no"
        /\ ~ fetched.upstream => (fetched.items = 0 /\ ~ fetched.err)

\* C18 witness: called after the close of a weekday with HasTodayData injected
\* and no record of today stored, Fetch went to upstream and returned an item
C18_Witness ==
    /\ fetched.called /\ fetched.upstream /\ fetched.items > 0
    /\ ~ isAshareMarketOpen(Instant(now)) /\ MondayToFriday(now)
    /\ fetcher.HasTodayData /\ fetched.has = "no"
    /\ shards["news_ashare"] = {}


\* the runFetcher calls of the A-share job
AshareTasks == {"ashare"} \X Origins

\* the cycle got past the gate of Fetch: it is in SaveBatch, or it has ended
\* after SaveBatch ran
PassedGate(t) ==
    \/ tasks[t].pc \in {"first", "create", "update"}
    \/ tasks[t].out \in {"saved", "saveFault", "saveConflict"}

\* C19: on a trading day on which every gate check happens after the close, at
\* most one A-share cycle gets past the gate; in particular no two cycles are
\* past the gate while the shard still holds no record of today.
C19_OnlyOneCycleBackfills ==
    (now >= ClosedEvening /\ isAshareTradingWeekday(Instant(now))
        /\ ~ isAshareMarketOpen(Instant(now))) =>
        /\ Cardinality({t \in AshareTasks : PassedGate(t)}) <= 1
        /\ ~ (NoRecordToday /\ \A t \in AshareTasks : tasks[t].pc \in {"first", "create", "update"})


\* the outcomes of a cycle whose Fetch returned an error or no item (the gate
\* skip of the A-share fetcher returns no item)
NothingFetched == {"error", "empty", "skip"}

\* C21: the step in which Fetch returns an error or no item ends the cycle: the
\* task is idle with no batch (Process and SaveBatch did not run, Fetch is not
\* called again) and no shard has changed; a task enters Fetch only when cron
\* fires its job or RunOnce is called; and cron can fire the job again.
C21_NoItemsEndsCycleUntilNextTrigger ==
    /\ [][\A t \in TaskIds :
             /\ (tasks[t].pc = "fetch" /\ tasks'[t] # tasks[t]
                   /\ tasks'[t].out \in NothingFetched) =>
                    /\ tasks'[t].pc = "idle" /\ tasks'[t].batch = <<>>
                    /\ shards' = shards /\ alive'
             /\ (tasks[t].pc # "fetch" /\ tasks'[t].pc = "fetch") =>
                    /\ tasks[t].pc = "idle"
                    /\ IF t[2] = "tick" THEN fires' = fires + 1
                       ELSE round'.calls = round.calls + 1]_vars
    /\ [](\A t \in TaskIds :
             (/\ tasks[t].pc = "idle" /\ tasks[t].out \in NothingFetched
              /\ tasks[<<t[1], "tick">>].pc = "idle" /\ fires < MaxFires) =>
                 ENABLED Fire(t[1]))

\* C21 witness: the baidu cycle of RunOnce ended with a Fetch error and nothing
\* stored; the baidu tick that cron fired afterwards fetched again and saved
C21_Witness ==
    /\ tasks[<<"baidu", "once">>].out = "error"
    /\ tasks[<<"baidu", "tick">>].out = "saved"
    /\ \A r \in shards["news_baidu"] : r.CreatedAt = r.UpdatedAt
    /\ shards["news_baidu"] # {}


\* C22: while the Fetch of one source is in flight, however long, every cycle
\* of another source that has started can take its next step (return from
\* Fetch, run the statements of SaveBatch), and cron can fire every idle job of
\* another source.
C22_SlowFetchBlocksNoOtherSource ==
    \A t \in TaskIds : (alive /\ tasks[t].pc = "fetch") =>
        \A u \in TaskIds : u[1] # t[1] =>
            /\ tasks[u].pc # "idle" => ENABLED Step(u)
            /\ (u[2] = "tick" /\ tasks[u].pc = "idle" /\ fires < MaxFires) =>
                   ENABLED Fire(u[1])

\* C22 witness: the baidu Fetch of RunOnce has not returned, and meanwhile the
\* A-share cycle of the same RunOnce and the A-share cycle fired by cron have
\* both run SaveBatch to its end
C22_Witness ==
    /\ tasks[<<"baidu", "once">>].pc = "fetch"
    /\ tasks[<<"ashare", "once">>].out = "saved"
    /\ tasks[<<"ashare", "tick">>].out = "saved"
    /\ shards["news_ashare"] # {}
    /\ round.open


(***************************************************************************)
(* Claims about the cache of ListNews                                      *)
(***************************************************************************)
\* the cache key of the query
ListKey == <<"news:list", query.channel, EffSort(query.sort), EffLimit(query.limit), query.date>>

\* the entries under the key of the query that Redis returns and that decode
ListHits == {e \in CacheGet(ListKey, now) : Decodable(e.val)}

\* this step is a call of ListNews: it leaves a ListNews record, and it is none
\* of the steps that leave the record alone (NewStore, the clock, a corruption,
\* a SaveBatch)
ListNewsCall ==
    /\ lastOp'.op = "ListNews"
    /\ boot' = boot /\ now' = now /\ shards' = shards
    /\ \A e \in cache' \ cache : Decodable(e.val)

C23_EmptyMiss ==
    /\ lastOp.op = "ListNews" /\ ~ lastOp.hit /\ lastOp.cacheFault = None
    /\ Len(lastOp.list) = 0 /\ ~ lastOp.err
    /\ cache = {}


(***************************************************************************)
(* SpecStale: SaveBatch calls, ListNews calls and the clock, minute by     *)
(* minute, past the TTL of the list cache. SaveBatch writes the shards and *)
(* never touches the cache. commits records each committed shard state.    *)
(***************************************************************************)
MaxMinutes == 7
MaxCommits == 2

\* the items a cycle can hand to SaveBatch at instant t
StaleItems(t) ==
    {SeedRaw(1, "baidu", 1, t), SeedRaw(2, "baidu", 9, t), SeedRaw(3, "gold", 5, t)}

StaleQueries ==
    [channel : {"", "baidu", "gold"}, sort : {"", "hot"}, limit : {1}, date : {NoDate}]

InitStale ==
    /\ shards = EmptyShards
    /\ now = StartInstant
    /\ lastRaw = <<>> /\ lastOut = None /\ lastErr = None
    /\ GateIdle
    /\ HttpIdle
    /\ FetchIdle
    /\ SchedIdle
    /\ boot = [state |-> "ready", dbOk |-> TRUE, pingOk |-> TRUE]
    /\ cache = {}
    /\ query \in StaleQueries
    /\ lastOp = NoOp
    /\ commits = <<[at |-> StartInstant, sh |-> EmptyShards]>>

\* a cycle's SaveBatch commits: the shards change, the cache is not invalidated
StaleSave(raw) ==
    /\ Len(commits) <= MaxCommits
    /\ shards' = SaveBatch(shards, Process(<<raw>>), now, NoFault).sh
    /\ shards' # shards
    /\ commits' = Append(commits, [at |-> now, sh |-> shards'])
    /\ UNCHANGED <<now, procVars, gateVars, httpVars, fetchVars, boot, cache, query, lastOp,
                   schedVars>>

\* a minute passes; Redis stops returning an entry once its TTL has run out
ClockMinute ==
    /\ now < StartInstant + MaxMinutes
    /\ now' = now + 1
    /\ UNCHANGED <<shards, procVars, gateVars, httpVars, fetchVars, readVars, schedVars>>

NextStale ==
    \/ \E raw \in StaleItems(now) : StaleSave(raw)
    \/ \E getOk, setOk \in BOOLEAN : ListNews(getOk, setOk, {})
    \/ ClockMinute

SpecStale == InitStale /\ [][NextStale]_vars

\* the shard states that were current at some moment of the last TTL: the
\* current one, and each one that was replaced no more than a TTL ago
RecentShards ==
    {commits[i].sh : i \in {k \in 1..Len(commits) :
                               k = Len(commits) \/ commits[k + 1].at >= now - ListCacheTTL}}

\* what the shard query of the ListNews call answers over shard state sh
QueryOver(sh) ==
    ListNewsQuery(sh, query.channel, EffSort(query.sort), EffLimit(query.limit),
                  query.date, now, {})

C25_MergedListIsTopOfUnion ==
    (MergedMiss /\ lastOp.dbFail = {}) =>
        lastOp.list \in
            {Truncate(s, EffLimit(query.limit)) :
                s \in IF EffSort(query.sort) = "hot" THEN OrderedBy(MatchingRows, HotFirst)
                      ELSE OrderedBy(MatchingRows, NewerFirst)}

\* the same in recency mode alone
C25_RecencyModeIsTopOfUnion ==
    (MergedMiss /\ lastOp.dbFail = {} /\ EffSort(query.sort) = "latest") =>
        lastOp.list \in {Truncate(s, EffLimit(query.limit)) :
                            s \in OrderedBy(MatchingRows, NewerFirst)}


\* the sources whose rows a channel argument stands for
ChannelSources(channel) ==
    IF channel = "gold" THEN {"gold", "ashare"}
    ELSE IF newsTable(channel) # "" THEN {channel}
    ELSE {}

\* C26: every row ListNews returns for a non-empty channel argument belongs to
\* that channel (for "gold": to the gold or the ashare shard); for a channel
\* name that is not configured the list is empty.
C26_ChannelQueryReturnsOnlyThatChannel ==
    (lastOp.op = "ListNews" /\ query.channel # "") =>
        \A i \in 1..Len(lastOp.list) : lastOp.list[i].Source \in ChannelSources(query.channel)

\* the same for the configured channels and "gold" alone
C26_ConfiguredChannelReturnsOnlyThatChannel ==
    (lastOp.op = "ListNews" /\ ChannelSources(query.channel) # {}) =>
        \A i \in 1..Len(lastOp.list) : lastOp.list[i].Source \in ChannelSources(query.channel)


(***************************************************************************)
(* SpecGold: ListNews for the composite channel "gold" over shards that    *)
(* hold several gold and A-share rows of today and of yesterday            *)
(***************************************************************************)
MaxGoldLimit == 3

GoldSeedBatch ==
    <<SeedRaw(1, "gold", 1, StartInstant - MinutesPerDay),
      SeedRaw(2, "gold", 2, StartInstant - 30),
      SeedRaw(3, "gold", 3, StartInstant - 10),
      SeedRaw(4, "ashare", 9, StartInstant - MinutesPerDay - 5),
      SeedRaw(5, "ashare", 8, StartInstant - 40),
      SeedRaw(6, "ashare", 7, StartInstant - 20),
      SeedRaw(7, "baidu", 5, StartInstant - 15)>>

GoldSeeds ==
    LET filled == SaveBatch(EmptyShards, Process(GoldSeedBatch), StartInstant, NoFault).sh
    IN  {filled, LegacyIn(filled, {"news_gold"})}

GoldQueries ==
    [channel : {"gold"}, sort : {"", "hot"}, limit : 1..MaxGoldLimit,
     date : {NoDate, Today, Today - 1}]

InitGold ==
    /\ shards \in GoldSeeds
    /\ now = StartInstant
    /\ lastRaw = <<>> /\ lastOut = None /\ lastErr = None
    /\ GateIdle
    /\ HttpIdle
    /\ FetchIdle
    /\ SchedIdle
    /\ boot = [state |-> "ready", dbOk |-> TRUE, pingOk |-> TRUE]
    /\ cache = {}
    /\ query \in GoldQueries
    /\ lastOp = NoOp
    /\ commits = <<>>

NextGold ==
    \E getOk, setOk \in BOOLEAN, dbFail \in {{}, {"news_gold"}} : ListNews(getOk, setOk, dbFail)

SpecGold == InitGold /\ [][NextGold]_vars

\* the rows of a shard that the gold view selects: those of the requested day,
\* or with no day requested those published on or after the current UTC+8 day
GoldRows(tbl) ==
    {r \in shards[tbl] :
        IF query.date # NoDate THEN RowDay(r) = query.date
        ELSE East8Date(r.PublishedAt) >= East8Date(now)}

C28_RowsAreNeverDeleted ==
    [][\A tbl \in Tables : \A r \in shards[tbl] :
           \E r2 \in shards'[tbl] :
               r2.URL = r.URL /\ r2.ID = r.ID /\ r2.CreatedAt = r.CreatedAt]_vars

\* C28 witness: the A-share shard holds two snapshots, and the baidu row has
\* been written again by a later cycle (updated after it was created)
C28_Witness ==
    /\ Cardinality(shards["news_ashare"]) = 2
    /\ \E r \in shards["news_baidu"] : r.UpdatedAt > r.CreatedAt


(***************************************************************************)
(* SpecPanic: Scheduler.Start as in Spec, with panics at every place of a  *)
(* cycle: in Fetch (FetchReturn), in a per-stock goroutine that the        *)
(* A-share Fetch starts, and in Process or SaveBatch                       *)
(***************************************************************************)
\* a goroutine started by AShareIndexFetcher.Fetch for one stock code panics:
\* it has no deferred recover, and the recover of runFetcher belongs to another
\* goroutine, so the Go runtime ends the process
PanicInWorker(t, countOk) ==
    /\ alive /\ tasks[t].pc = "fetch"
    /\ t[1] = "ashare" /\ AshareGate(shards, now, countOk)
    /\ tasks' = [tasks EXCEPT ![t] = [IdleTask EXCEPT !.pc = "dead", !.out = "panic"]]
    /\ alive' = FALSE
    /\ UNCHANGED <<storeVars, procVars, gateVars, httpVars, fetchVars, readVars, round, fires,
                   faulty>>

\* Process or a statement of SaveBatch panics in the goroutine of runFetcher:
\* the deferred recover logs it and runFetcher returns
PanicInPipeline(t) ==
    /\ alive /\ tasks[t].pc \in {"first", "create", "update"}
    /\ Finish(t, "panic")
    /\ UNCHANGED <<storeVars, procVars, gateVars, httpVars, fetchVars, readVars, alive, fires,
                   faulty>>

NextPanic ==
    \/ Next
    \/ \E t \in TaskIds, countOk \in BOOLEAN : PanicInWorker(t, countOk)
    \/ \E t \in TaskIds : PanicInPipeline(t)

SpecPanic == Init /\ [][NextPanic]_vars

\* a step in which a cycle panics
PanicStep(t) == tasks'[t].out = "panic" /\ tasks'[t] # tasks[t]

\* C29: the step in which a cycle panics, wherever the panic is raised, ends
\* that cycle as a failed fetch ends it: the process stays alive, the task is
\* idle, no shard changes in the step, and no other task is touched.
C29_EveryPanicRecovered ==
    [][\A t \in TaskIds :
           PanicStep(t) =>
               /\ alive'
               /\ tasks'[t].pc = "idle"
               /\ shards' = shards
               /\ \A u \in TaskIds \ {t} : tasks'[u] = tasks[u]]_vars

\* the same for the panics raised in the goroutine of runFetcher (Fetch itself,
\* Process, SaveBatch)
C29_PanicInOwnGoroutineRecovered ==
    [][\A t \in TaskIds :
           (PanicStep(t) /\ tasks'[t].pc # "dead") =>
               /\ alive'
               /\ tasks'[t].pc = "idle"
               /\ shards' = shards
               /\ \A u \in TaskIds \ {t} : tasks'[u] = tasks[u]]_vars


\* the days a request can name around the instants of the cycles
RequestDays == {East8Date(StartInstant) + d : d \in 0 - 1 .. MaxCycles}

====
